---- MODULE Spec2Model ----
(***************************************************************************)
(* Change-detection / snapshot-diff engine of the pharma news scraper:     *)
(*   - the cumulative link tracker of PharmaceuticalOnlineScraper          *)
(*   - the snapshot monitors (ICH, EudraLex, HTML pages, GMP Journal)      *)
(*   - the USP and PMDA link trackers of run_monitor_pipeline              *)
(* Every sub-system keeps its own variables; a specification moves only    *)
(* the variables of the sub-system it is about.                            *)
(***************************************************************************)
EXTENDS Integers, FiniteSets, Sequences, TLC

\* ------------------------------------------------------------------ bounds
\* number of distinct article links a hub page can list
MaxLinks == 3
\* number of fetch_news runs (the clock stops there)
MaxRuns == 3

\* number of checks of a monitor (the clock stops there)
MaxChecks == 3
\* number of runs of run_monitor_pipeline
MaxPipeRuns == 2
\* number of saves a snapshot writer starts
MaxSaves == 2
\* number of check_all calls
MaxAllRuns == 2
\* number of successive checks of one monitored target
MaxHistChecks == 4
\* number of successive pipeline runs of one link tracker
MaxTrackRuns == 3
\* number of fetch_news runs of the two concurrent processes together
MaxConcRuns == 3
\* number of checks the two interleaved processes start together
MaxInterChecks == 4
\* number of runs of run_pipeline.main on one day
MaxMainRuns == 2
\* ICHGuidelinesMonitor.extract_info keeps at most this many PDF links of a
\* response (50 in the source, scaled to the size of PdfUrls)
LinkCap == 1
\* HTMLChangeMonitor.compare_content reports at most this many added and
\* removed lines
TextDiffCap == 20

Links == 1..MaxLinks

\* the snapshot file does not exist
NoFile == [exists |-> FALSE]

VARIABLES
    now,        \* wall clock, datetime.now(): one tick per run
    cum_file,   \* snapshots/pharmaceutical_online/article_links.json
    cum_run,    \* what the last fetch_news run loaded, computed and returned
    cum_trace,  \* the current_links of the runs since the last reset
    ever_new,   \* links that were in new_links of an earlier run since reset
    monitor,    \* the monitor object that was constructed
    ich_snap,   \* .ich_snapshots/ich_<category>_snapshot.json, per category
    eud_snap,   \* .eudralex_snapshots/eudralex_vol4_snapshot.json
    html_snap,  \* .page_snapshots/snapshot_<md5(url)>.json, per url
    gmp_snap,   \* .gmpjournal_snapshots/annex1_snapshot.json
    cur,        \* the last check: target, what was fetched, what it returned
    last,       \* per target, the status and the fetched content of its last check
    cmp,        \* a call of a compare function: its arguments and its result
    pipe_pc,    \* the section run_monitor_pipeline is at
    pipe_runs,  \* number of pipeline runs started
    updates,    \* the updates list of the pipeline run
    pmda_file,  \* snapshots/pmda/pmda_pdfs.json
    usp_file,   \* snapshots/usp/usp_pdfs.json
    pipe_log,   \* per tracker section of the run: the file it found and what it fetched
    output_file, \* data/monitors/monitor_updates_<today>.json
    w_pc,       \* where a snapshot writer is: idle, writing, stopped
    w_file,     \* the file a snapshot writer writes
    w_call,     \* the save in progress: the file it found and the value to write
    w_saves,    \* number of saves started
    w_load,     \* the last load after a stopped save: what it returned
    all_run,    \* the last check_all: what it found, fetched, returned or raised
    all_runs,   \* number of check_all calls
    hist_new,   \* the links one target has reported as new so far
    hist_run,   \* the last check or run of that target: what it reported
    hist_n,     \* number of checks or runs of that target
    conc_pc,    \* where each of two concurrent fetch_news runs is
    conc_prev,  \* the previous_links each of them has loaded
    conc_seen,  \* every link a completed run had in its current_links
    conc_run,   \* the last completed run: what it returned
    conc_n,     \* number of fetch_news runs started
    int_pc,     \* where each of two interleaved checks of distinct targets is
    int_files,  \* the snapshot directory: path -> file
    int_run,    \* per process: what it fetched, loaded and last returned
    int_own,    \* per process: the file its own checks alone would have left
    int_n,      \* number of checks started
    int_overlap, \* a check has run between the load and the return of another
    det_failed, \* links whose detail fetch gave no article in some fetch_news run
    main_pc,    \* where run_pipeline.main is: idle or in its monitor step
    main_n,     \* number of runs of run_pipeline.main started (all on one day)
    main_log    \* what the last run of main found and e-mailed

cumVars == <<cum_file, cum_run, cum_trace, ever_new>>
monVars == <<monitor, ich_snap, eud_snap, html_snap, gmp_snap, cur, last>>
cmpVars == <<cmp>>
pipeVars == <<pipe_pc, pipe_runs, updates, pmda_file, usp_file, pipe_log, output_file>>
wrVars == <<w_pc, w_file, w_call, w_saves, w_load>>
allVars == <<all_run, all_runs>>
histVars == <<hist_new, hist_run, hist_n>>
concVars == <<conc_pc, conc_prev, conc_seen, conc_run, conc_n>>
interVars == <<int_pc, int_files, int_run, int_own, int_n, int_overlap>>
detVars == <<det_failed>>
mainVars == <<main_pc, main_n, main_log>>
moreVars == <<concVars, interVars, detVars, mainVars>>
auxVars == <<wrVars, allVars, histVars, moreVars>>
vars == <<now, cumVars, monVars, cmpVars, pipeVars, auxVars>>

\* ------------------------------------------- PharmaceuticalOnlineScraper
\* the links a snapshot file holds (nothing when there is no file)
StoredLinks(file) == IF file = NoFile THEN {} ELSE file.links

\* _load_snapshot: the stored links; the empty set when the file is absent
\* and, through the except branch, when reading or parsing it fails
load_snapshot(file, readOk) ==
    IF file # NoFile
    THEN IF readOk THEN file.links ELSE {}
    ELSE {}

AllSeenCurrentOnly(current_links, previous_links) == current_links

\* _save_snapshot, lines 116-120: the set that is written
AllSeenLinks(current_links, previous_links) ==
    IF previous_links # {}
    THEN current_links \cup previous_links
    ELSE current_links

\* _save_snapshot: the file after the write
save_snapshot(current_links, previous_links) ==
    [exists |-> TRUE,
     updated |-> now,
     count |-> Cardinality(AllSeenLinks(current_links, previous_links)),
     links |-> AllSeenLinks(current_links, previous_links)]

NewLinksAll(current_links, previous_links) == current_links

\* fetch_news, line 270
NewLinks(current_links, previous_links) == current_links \ previous_links

ReturnedAlsoOnFirstRun(is_first_run, new_links, parsed) == new_links \cap parsed

\* fetch_news, lines 272-313: the links of the articles returned; parsed are
\* the links whose _parse_article yields an article
ReturnedArticles(is_first_run, new_links, parsed) ==
    IF is_first_run THEN {}
    ELSE IF new_links = {} THEN {}
    ELSE new_links \cap parsed

\* one fetch_news call on the file as it finds it (before, in cum_run)
FetchNewsOn(op, file, readOk, current_links, parsed) ==
    LET previous_links == load_snapshot(file, readOk)
        is_first_run == Cardinality(previous_links) = 0
        new_links == NewLinks(current_links, previous_links)
    IN  /\ now < MaxRuns
        /\ now' = now + 1
        /\ cum_file' = save_snapshot(current_links, previous_links)
        /\ cum_run' = [op |-> op,
                       before |-> file,
                       readOk |-> readOk,
                       previous_links |-> previous_links,
                       current_links |-> current_links,
                       is_first_run |-> is_first_run,
                       new_links |-> new_links,
                       articles |-> ReturnedArticles(is_first_run, new_links, parsed)]
        /\ cum_trace' = IF op = "reset" THEN <<current_links>>
                        ELSE Append(cum_trace, current_links)
        /\ ever_new' = IF op = "reset" THEN new_links
                       ELSE ever_new \cup new_links
        /\ UNCHANGED <<monVars, cmpVars, pipeVars, auxVars>>

\* fetch_news as MultiSourceScraper.fetch_all calls it; the file is readable
fetch_news ==
    \E current_links \in SUBSET Links, parsed \in SUBSET Links :
        FetchNewsOn("fetch", cum_file, TRUE, current_links, parsed)

\* fetch_news when reading the existing snapshot file fails
fetch_news_unreadable ==
    /\ cum_file # NoFile
    /\ \E current_links \in SUBSET Links, parsed \in SUBSET Links :
        FetchNewsOn("fetch", cum_file, FALSE, current_links, parsed)

\* article_links.json after a write that raised once open() had truncated
\* it: _load_snapshot's except branch makes the empty set of it
TruncatedLinksFile == [exists |-> TRUE, truncated |-> TRUE, links |-> {}]

\* fetch_news in which _save_snapshot raises (lines 275, 281 or 310): the
\* call is in no try, so the exception leaves fetch_news and the except of
\* MultiSourceScraper.fetch_all prints it; no article reaches all_articles
fetch_news_save_fails ==
    \E current_links \in SUBSET Links, parsed \in SUBSET Links, truncated \in BOOLEAN :
        LET previous_links == load_snapshot(cum_file, TRUE)
            is_first_run == Cardinality(previous_links) = 0
            new_links == NewLinks(current_links, previous_links)
        IN  /\ now < MaxRuns
            /\ now' = now + 1
            /\ cum_file' = IF truncated THEN TruncatedLinksFile ELSE cum_file
            /\ cum_run' = [op |-> "save_failed",
                           before |-> cum_file,
                           readOk |-> TRUE,
                           previous_links |-> previous_links,
                           current_links |-> current_links,
                           is_first_run |-> is_first_run,
                           new_links |-> new_links,
                           parsed |-> parsed,
                           articles |-> {}]
            /\ cum_trace' = Append(cum_trace, current_links)
            /\ UNCHANGED <<ever_new, monVars, cmpVars, pipeVars, auxVars>>

\* main with --reset: the snapshot file is removed, then fetch_news runs
main_reset ==
    /\ cum_file # NoFile
    /\ \E current_links \in SUBSET Links, parsed \in SUBSET Links :
        FetchNewsOn("reset", NoFile, TRUE, current_links, parsed)

\* ------------------------------------------------- shared by the monitors
\* a fetch that failed (fetch_api_data returns {}, fetch_page returns None)
FetchFail == [ok |-> FALSE]

\* dict.get(key, default)
Get(d, key, default) == IF key \in DOMAIN d THEN d[key] ELSE default

Min(a, b) == IF a <= b THEN a ELSE b

\* hashlib.sha256(...).hexdigest(): equal digests for equal input only
ContentHash(content) == <<"sha256", content>>

\* hashlib.md5(href.encode()).hexdigest()[:8]
Md5Prefix(href) == <<"md5", href>>

\* the PDF links a page or an API response can hold
PdfUrls == {"a.pdf", "b.pdf"}
\* link and heading texts
Titles == {"t", "u"}

\* the <a> elements of a page in DOM order, no url twice
AnchorLists(urls) ==
    {p \in UNION {[1..n -> [title : Titles, url : urls]] : n \in 0..Cardinality(urls)} :
        \A i, j \in DOMAIN p : i # j => p[i].url # p[j].url}

\* ---------------------------------------------------- ICHGuidelinesMonitor
\* GUIDELINE_PAGES (two of its four categories)
Categories == {"quality", "safety"}
\* guideline codes of a category (Q1, S1, ...)
GuidelineIds == {"1"}
\* an API response: its PDF links, its guideline codes and the length of the
\* rest of its text
ICHContents == [ok : {TRUE}, pdfs : SUBSET PdfUrls, guides : SUBSET GuidelineIds, rest : {1, 2}]

\* len(content_str)
ContentSize(api_data) ==
    10 * Cardinality(api_data.pdfs) + 3 * Cardinality(api_data.guides) + api_data.rest

\* list(pdfs)[:50]: the iteration order of a set of strings is not fixed, so
\* any LinkCap of the links can be the ones kept
CappedLinks(pdfs) ==
    {S \in SUBSET pdfs : Cardinality(S) = Min(LinkCap, Cardinality(pdfs))}

ICH_extract_info_HashTimestamp(api_data, category, links_found, ts) ==
    [exists |-> TRUE,
     category |-> category,
     timestamp |-> ts,
     content_hash |-> ContentHash(<<api_data, ts>>),
     response_size |-> ContentSize(api_data),
     guidelines_found |-> api_data.guides,
     links_found |-> links_found]

\* extract_info; links_found is the choice list(pdfs)[:50] made
ICH_extract_info(api_data, category, links_found, ts) ==
    [exists |-> TRUE,
     category |-> category,
     timestamp |-> ts,
     content_hash |-> ContentHash(api_data),
     response_size |-> ContentSize(api_data),
     guidelines_found |-> api_data.guides,
     links_found |-> links_found]

\* the summary: the labels of the parts that are joined with ", "
Summary(parts) ==
    IF SelectSeq(parts, LAMBDA x : x # "") = <<>>
    THEN <<"Content modified">>
    ELSE SelectSeq(parts, LAMBDA x : x # "")

ICH_compare_snapshots_NoSubtract(old, new) ==
    IF old.content_hash = new.content_hash
    THEN [has_changes |-> FALSE,
          old_timestamp |-> old.timestamp,
          new_timestamp |-> new.timestamp,
          new_links |-> {},
          removed_links |-> {},
          summary |-> <<"No changes detected">>]
    ELSE [has_changes |-> TRUE,
          old_timestamp |-> old.timestamp,
          new_timestamp |-> new.timestamp,
          new_links |-> new.links_found,
          removed_links |-> old.links_found,
          new_guidelines |-> new.guidelines_found \ old.guidelines_found,
          removed_guidelines |-> old.guidelines_found \ new.guidelines_found,
          summary |-> <<"Content modified">>]

ICH_compare_snapshots_NoShortCircuit(old, new) ==
    [has_changes |-> TRUE,
     old_timestamp |-> old.timestamp,
     new_timestamp |-> new.timestamp,
     new_links |-> new.links_found \ old.links_found,
     removed_links |-> old.links_found \ new.links_found,
     new_guidelines |-> new.guidelines_found \ old.guidelines_found,
     removed_guidelines |-> old.guidelines_found \ new.guidelines_found,
     summary |-> <<"Content modified">>]

\* compare_snapshots
ICH_compare_snapshots(old, new) ==
    IF old.content_hash = new.content_hash
    THEN [has_changes |-> FALSE,
          old_timestamp |-> old.timestamp,
          new_timestamp |-> new.timestamp,
          new_links |-> {},
          removed_links |-> {},
          summary |-> <<"No changes detected">>]
    ELSE LET new_links == new.links_found \ old.links_found
             removed_links == old.links_found \ new.links_found
             new_guidelines == new.guidelines_found \ old.guidelines_found
             removed_guidelines == old.guidelines_found \ new.guidelines_found
             size_diff == new.response_size - old.response_size
         IN  [has_changes |-> TRUE,
              old_timestamp |-> old.timestamp,
              new_timestamp |-> new.timestamp,
              new_links |-> new_links,
              removed_links |-> removed_links,
              new_guidelines |-> new_guidelines,
              removed_guidelines |-> removed_guidelines,
              summary |-> Summary(<<IF new_links # {} THEN "new PDFs" ELSE "",
                                    IF removed_links # {} THEN "removed PDFs" ELSE "",
                                    IF new_guidelines # {} THEN "New" ELSE "",
                                    IF size_diff # 0 THEN "Size diff" ELSE "">>)]

ICH_check_category_SaveOnError(previous_info, api_data, category, links_found, ts) ==
    [result |-> [category |-> category,
                 status |-> "error",
                 error |-> "Failed to fetch API data",
                 has_changes |-> FALSE],
     saved |-> [exists |-> TRUE,
                category |-> category,
                timestamp |-> ts,
                content_hash |-> ContentHash(api_data),
                response_size |-> 0,
                guidelines_found |-> {},
                links_found |-> {}]]

\* a check_category that saves the observation after every comparison
ICH_check_category_SaveUnchanged(previous_info, api_data, category, links_found, ts) ==
    IF api_data = FetchFail
    THEN [result |-> [category |-> category,
                      status |-> "error",
                      error |-> "Failed to fetch API data",
                      has_changes |-> FALSE],
          saved |-> previous_info]
    ELSE LET current_info == ICH_extract_info(api_data, category, links_found, ts)
         IN  IF previous_info = NoFile
             THEN [result |-> [category |-> category,
                               status |-> "first_check",
                               message |-> "First check - baseline saved",
                               guidelines_count |-> Cardinality(current_info.guidelines_found),
                               links_count |-> Cardinality(current_info.links_found),
                               has_changes |-> FALSE],
                   saved |-> current_info]
             ELSE [result |-> [category |-> category, status |-> "checked"]
                                  @@ ICH_compare_snapshots(previous_info, current_info),
                   saved |-> current_info]

\* check_category: what it returns and the snapshot file it leaves
\* a check_category that reports a change and keeps the old snapshot
ICH_check_category_KeepOld(previous_info, api_data, category, links_found, ts) ==
    IF api_data = FetchFail
    THEN [result |-> [category |-> category,
                      status |-> "error",
                      error |-> "Failed to fetch API data",
                      has_changes |-> FALSE],
          saved |-> previous_info]
    ELSE LET current_info == ICH_extract_info(api_data, category, links_found, ts)
         IN  IF previous_info = NoFile
             THEN [result |-> [category |-> category,
                               status |-> "first_check",
                               message |-> "First check - baseline saved",
                               guidelines_count |-> Cardinality(current_info.guidelines_found),
                               links_count |-> Cardinality(current_info.links_found),
                               has_changes |-> FALSE],
                   saved |-> current_info]
             ELSE LET changes == ICH_compare_snapshots(previous_info, current_info)
                  IN  [result |-> [category |-> category, status |-> "checked"] @@ changes,
                       saved |-> previous_info]

ICH_check_category(previous_info, api_data, category, links_found, ts) ==
    IF api_data = FetchFail
    THEN [result |-> [category |-> category,
                      status |-> "error",
                      error |-> "Failed to fetch API data",
                      has_changes |-> FALSE],
          saved |-> previous_info]
    ELSE LET current_info == ICH_extract_info(api_data, category, links_found, ts)
         IN  IF previous_info = NoFile
             THEN [result |-> [category |-> category,
                               status |-> "first_check",
                               message |-> "First check - baseline saved",
                               guidelines_count |-> Cardinality(current_info.guidelines_found),
                               links_count |-> Cardinality(current_info.links_found),
                               has_changes |-> FALSE],
                   saved |-> current_info]
             ELSE LET changes == ICH_compare_snapshots(previous_info, current_info)
                  IN  [result |-> [category |-> category, status |-> "checked"] @@ changes,
                       saved |-> IF changes.has_changes THEN current_info ELSE previous_info]

\* the record of a check, for the properties
Checked(kind, target, before, fetched, result) ==
    /\ cur' = [op |-> "check",
               monitor |-> kind,
               target |-> target,
               before |-> before,
               fetched |-> fetched,
               result |-> result,
               prev |-> last[target]]
    /\ last' = [last EXCEPT ![target] = [status |-> result.status,
                                         fetched |-> fetched,
                                         has_changes |-> Get(result, "has_changes", FALSE)]]
    /\ now' = now + 1

\* ICHGuidelinesMonitor.check_category(category)
ICH_check ==
    /\ monitor = "ICH"
    /\ now < MaxChecks
    /\ \E category \in Categories, api_data \in ICHContents \cup {FetchFail} :
        \E links_found \in (IF api_data = FetchFail THEN {{}} ELSE CappedLinks(api_data.pdfs)) :
            LET out == ICH_check_category(ich_snap[category], api_data, category, links_found, now)
            IN  /\ ich_snap' = [ich_snap EXCEPT ![category] = out.saved]
                /\ Checked("ICH", category, ich_snap[category], api_data, out.result)
    /\ UNCHANGED <<monitor, eud_snap, html_snap, gmp_snap, cumVars, cmpVars, pipeVars, auxVars>>

NoRun == [op |-> "none"]

InitCum ==
    /\ cum_file = NoFile
    /\ cum_run = NoRun
    /\ cum_trace = <<>>
    /\ ever_new = {}

\* -------------------------------------------------------- EudraLexMonitor
\* the page as fetch_page returns it: its PDF anchors in DOM order
EudraPages == [ok : {TRUE}, anchors : AnchorLists(PdfUrls)]

\* extract_documents (parts and annexes are written and never read again)
EudraLex_extract_documents(soup, ts) ==
    LET pdf_links == [i \in DOMAIN soup.anchors |->
                        [title |-> soup.anchors[i].title,
                         url |-> soup.anchors[i].url,
                         hash |-> Md5Prefix(soup.anchors[i].url)]]
    IN  [exists |-> TRUE,
         timestamp |-> ts,
         all_pdfs |-> pdf_links,
         content_hash |-> ContentHash(pdf_links),
         pdf_count |-> Len(pdf_links)]

\* {p["url"] for p in pdfs}
UrlsOf(pdfs) == {pdfs[i].url : i \in DOMAIN pdfs}

\* compare_snapshots
EudraLex_compare_snapshots(old, new) ==
    IF old.content_hash = new.content_hash
    THEN [has_changes |-> FALSE,
          old_timestamp |-> old.timestamp,
          new_timestamp |-> new.timestamp,
          new_pdfs |-> <<>>,
          removed_pdfs |-> <<>>,
          pdf_count_change |-> 0,
          summary |-> <<"No changes detected">>]
    ELSE LET added_urls == UrlsOf(new.all_pdfs) \ UrlsOf(old.all_pdfs)
             removed_urls == UrlsOf(old.all_pdfs) \ UrlsOf(new.all_pdfs)
             new_pdfs == SelectSeq(new.all_pdfs, LAMBDA p : p.url \in added_urls)
             removed_pdfs == SelectSeq(old.all_pdfs, LAMBDA p : p.url \in removed_urls)
             pdf_count_change == new.pdf_count - old.pdf_count
         IN  [has_changes |-> TRUE,
              old_timestamp |-> old.timestamp,
              new_timestamp |-> new.timestamp,
              new_pdfs |-> new_pdfs,
              removed_pdfs |-> removed_pdfs,
              pdf_count_change |-> pdf_count_change,
              summary |-> Summary(<<IF new_pdfs # <<>> THEN "new PDF(s)" ELSE "",
                                    IF removed_pdfs # <<>> THEN "removed PDF(s)" ELSE "",
                                    IF pdf_count_change # 0 THEN "Total PDFs" ELSE "">>)]

\* check: what it returns and the snapshot file it leaves
EudraLex_check_result(previous_data, soup, ts) ==
    IF soup = FetchFail
    THEN [result |-> [status |-> "error",
                      error |-> "Failed to fetch page",
                      has_changes |-> FALSE],
          saved |-> previous_data]
    ELSE LET current_data == EudraLex_extract_documents(soup, ts)
         IN  IF previous_data = NoFile
             THEN [result |-> [status |-> "first_check",
                               message |-> "First check - baseline saved",
                               pdf_count |-> current_data.pdf_count,
                               has_changes |-> FALSE],
                   saved |-> current_data]
             ELSE LET changes == EudraLex_compare_snapshots(previous_data, current_data)
                  IN  [result |-> [status |-> "checked"] @@ changes,
                       saved |-> IF changes.has_changes THEN current_data ELSE previous_data]

\* EudraLexMonitor.check()
EudraLex_check ==
    /\ monitor = "EudraLex"
    /\ now < MaxChecks
    /\ \E soup \in EudraPages \cup {FetchFail} :
        LET out == EudraLex_check_result(eud_snap, soup, now)
        IN  /\ eud_snap' = out.saved
            /\ Checked("EudraLex", "eudralex_vol4", eud_snap, soup, out.result)
    /\ UNCHANGED <<monitor, ich_snap, html_snap, gmp_snap, cumVars, cmpVars, pipeVars, auxVars>>

\* ------------------------------------------------------ HTMLChangeMonitor
\* RegulatoryPageMonitor.MONITORED_PAGES (two of its five pages)
HtmlUrls == {"PMDA_JP18", "EudraLex_V4"}
\* an element has no href
NoHref == "none"
\* the elements of the selected part of a page: one text line each, a link
\* when it has an href
Elements == [text : Titles, href : {NoHref, "x.html"}]
\* the selected part of a page: elements in DOM order, no text twice
HtmlPages ==
    {p \in UNION {[1..n -> Elements] : n \in 0..Cardinality(Titles)} :
        \A i, j \in DOMAIN p : i # j => p[i].text # p[j].text}

\* fetch_page_content / fetch_page_with_playwright: the content dict
fetch_page_content(url, page, ts) ==
    IF page = FetchFail
    THEN [url |-> url, timestamp |-> ts, status |-> "error", error |-> "exception"]
    ELSE LET text_content == [i \in DOMAIN page.elems |-> page.elems[i].text]
             anchors == SelectSeq(page.elems, LAMBDA e : e.href # NoHref)
         IN  [url |-> url,
              selector |-> "main",
              timestamp |-> ts,
              html_content |-> page.elems,
              text_content |-> text_content,
              links |-> [i \in DOMAIN anchors |->
                            [text |-> anchors[i].text, href |-> anchors[i].href]],
              content_hash |-> ContentHash(text_content),
              status |-> "success"]

\* save_snapshot: the file written (html_content is left out)
HTML_save_snapshot(url, content) ==
    [exists |-> TRUE,
     url |-> content.url,
     selector |-> content.selector,
     timestamp |-> content.timestamp,
     text_content |-> content.text_content,
     links |-> content.links,
     content_hash |-> content.content_hash,
     status |-> content.status]

\* SequenceMatcher.find_longest_match: the longest block a[i..i+k-1] =
\* b[j..j+k-1], the earliest in a and then in b among the longest
LongestMatch(a, b) ==
    LET blocks == {m \in [i : DOMAIN a, j : DOMAIN b, k : 1..Len(a)] :
                      /\ m.i + m.k - 1 <= Len(a)
                      /\ m.j + m.k - 1 <= Len(b)
                      /\ \A d \in 0..(m.k - 1) : a[m.i + d] = b[m.j + d]}
    IN  IF blocks = {} THEN [i |-> 0, j |-> 0, k |-> 0]
        ELSE CHOOSE m \in blocks :
                \A o \in blocks :
                    \/ m.k > o.k
                    \/ m.k = o.k /\ m.i < o.i
                    \/ m.k = o.k /\ m.i = o.i /\ m.j <= o.j

\* difflib.unified_diff(old_text, new_text): the '-' and the '+' lines
RECURSIVE UnifiedDiff(_, _)
UnifiedDiff(a, b) ==
    LET m == LongestMatch(a, b)
    IN  IF m.k = 0 THEN [removed |-> a, added |-> b]
        ELSE LET left == UnifiedDiff(SubSeq(a, 1, m.i - 1), SubSeq(b, 1, m.j - 1))
                 right == UnifiedDiff(SubSeq(a, m.i + m.k, Len(a)), SubSeq(b, m.j + m.k, Len(b)))
             IN  [removed |-> left.removed \o right.removed,
                  added |-> left.added \o right.added]

\* seq[:n]
Take(seq, n) == SubSeq(seq, 1, Min(n, Len(seq)))

\* {(l["text"], l["href"]) for l in links}
LinkPairs(links) == {<<links[i].text, links[i].href>> : i \in DOMAIN links}

\* compare_content
HTML_compare_content(old_content, new_content) ==
    IF old_content.content_hash = new_content.content_hash
    THEN [has_changes |-> FALSE,
          old_timestamp |-> old_content.timestamp,
          new_timestamp |-> new_content.timestamp,
          text_changes |-> [added |-> <<>>, removed |-> <<>>],
          link_changes |-> [added |-> {}, removed |-> {}, modified |-> {}],
          summary |-> <<"No changes detected.">>]
    ELSE LET diff == UnifiedDiff(old_content.text_content, new_content.text_content)
             added_links == LinkPairs(new_content.links) \ LinkPairs(old_content.links)
             removed_links == LinkPairs(old_content.links) \ LinkPairs(new_content.links)
         IN  [has_changes |-> TRUE,
              old_timestamp |-> old_content.timestamp,
              new_timestamp |-> new_content.timestamp,
              text_changes |-> [added |-> Take(diff.added, TextDiffCap),
                                removed |-> Take(diff.removed, TextDiffCap)],
              link_changes |-> [added |-> {[text |-> l[1], href |-> l[2]] : l \in added_links},
                                removed |-> {[text |-> l[1], href |-> l[2]] : l \in removed_links},
                                modified |-> {}],
              summary |-> Summary(<<IF diff.added # <<>> THEN "lines added" ELSE "",
                                    IF diff.removed # <<>> THEN "lines removed" ELSE "",
                                    IF added_links # {} THEN "links added" ELSE "",
                                    IF removed_links # {} THEN "links removed" ELSE "">>)]

\* check_for_changes: what it returns and the snapshot file it leaves
HTML_check_for_changes(previous_content, current_content, url) ==
    IF current_content.status = "error"
    THEN [result |-> [url |-> url,
                      status |-> "error",
                      error |-> current_content.error,
                      timestamp |-> current_content.timestamp],
          saved |-> previous_content]
    ELSE IF previous_content = NoFile
    THEN [result |-> [url |-> url,
                      status |-> "first_check",
                      message |-> "First check - baseline snapshot saved",
                      timestamp |-> current_content.timestamp,
                      has_changes |-> FALSE],
          saved |-> HTML_save_snapshot(url, current_content)]
    ELSE LET changes == HTML_compare_content(previous_content, current_content)
         IN  [result |-> [url |-> url,
                          status |-> "checked",
                          timestamp |-> current_content.timestamp,
                          previous_check |-> previous_content.timestamp] @@ changes,
              saved |-> IF changes.has_changes
                        THEN HTML_save_snapshot(url, current_content)
                        ELSE previous_content]

\* HTMLChangeMonitor.check_for_changes(url, selector, use_playwright)
HTML_check ==
    /\ monitor = "HTML"
    /\ now < MaxChecks
    /\ \E url \in HtmlUrls, page \in [ok : {TRUE}, elems : HtmlPages] \cup {FetchFail} :
        LET out == HTML_check_for_changes(html_snap[url], fetch_page_content(url, page, now), url)
        IN  /\ html_snap' = [html_snap EXCEPT ![url] = out.saved]
            /\ Checked("HTML", url, html_snap[url], page, out.result)
    /\ UNCHANGED <<monitor, ich_snap, eud_snap, gmp_snap, cumVars, cmpVars, pipeVars, auxVars>>

\* ------------------------------------------------ GMPJournalAnnex1Monitor
\* MONITORED_PAGES (one of its three pages)
MONITORED_PAGES == {"annex-1-revision"}
\* the articles a search can list
ArticleUrls == {"g1", "g2"}
\* the bodies a monitored page can have
PageBodies == {"x", "y"}
\* what the search page lists, in its fixed listing order (date is not read
\* by the comparison and is left out)
SearchResults ==
    {a \in AnchorLists(ArticleUrls) : Len(a) = 2 => a[1].url = "g1"}
\* what one check fetches: the search page and every monitored page
GmpFetches ==
    [search : [ok : {TRUE}, articles : SearchResults] \cup {FetchFail},
     pages : [MONITORED_PAGES -> [ok : {TRUE}, body : PageBodies] \cup {FetchFail}]]

\* extract_search_articles
extract_search_articles(soup) ==
    [i \in DOMAIN soup.articles |->
        [title |-> soup.articles[i].title,
         url |-> soup.articles[i].url,
         hash |-> Md5Prefix(soup.articles[i].url)]]

\* collect_current_data
collect_current_data(fetched, ts) ==
    LET articles == IF fetched.search = FetchFail THEN <<>>
                    ELSE extract_search_articles(fetched.search)
        hashed == {p \in MONITORED_PAGES : fetched.pages[p] # FetchFail}
    IN  [exists |-> TRUE,
         timestamp |-> ts,
         articles |-> articles,
         page_hashes |-> [p \in hashed |-> ContentHash(fetched.pages[p].body)],
         article_count |-> Len(articles)]

\* compare_snapshots
\* a comparison that takes a page without a stored hash for modified
GMP_compare_snapshots_MissingIsModified(old, new) ==
    LET added_urls == UrlsOf(new.articles) \ UrlsOf(old.articles)
        removed_urls == UrlsOf(old.articles) \ UrlsOf(new.articles)
        new_articles == SelectSeq(new.articles, LAMBDA a : a.url \in added_urls)
        removed_articles == SelectSeq(old.articles, LAMBDA a : a.url \in removed_urls)
        modified_pages == {p \in DOMAIN new.page_hashes :
                              \/ p \notin DOMAIN old.page_hashes
                              \/ old.page_hashes[p] # new.page_hashes[p]}
        parts == SelectSeq(<<IF new_articles # <<>> THEN "new article(s)" ELSE "",
                             IF removed_articles # <<>> THEN "removed article(s)" ELSE "",
                             IF modified_pages # {} THEN "page(s) modified" ELSE "">>,
                           LAMBDA x : x # "")
    IN  [has_changes |-> new_articles # <<>> \/ removed_articles # <<>> \/ modified_pages # {},
         old_timestamp |-> old.timestamp,
         new_timestamp |-> new.timestamp,
         new_articles |-> new_articles,
         removed_articles |-> removed_articles,
         modified_pages |-> {[path |-> p, change_type |-> "content_modified"] : p \in modified_pages},
         summary |-> IF parts = <<>> THEN <<"No changes detected">> ELSE parts]

GMP_compare_snapshots(old, new) ==
    LET added_urls == UrlsOf(new.articles) \ UrlsOf(old.articles)
        removed_urls == UrlsOf(old.articles) \ UrlsOf(new.articles)
        new_articles == SelectSeq(new.articles, LAMBDA a : a.url \in added_urls)
        removed_articles == SelectSeq(old.articles, LAMBDA a : a.url \in removed_urls)
        modified_pages == {p \in DOMAIN new.page_hashes :
                              /\ p \in DOMAIN old.page_hashes
                              /\ old.page_hashes[p] # new.page_hashes[p]}
        parts == SelectSeq(<<IF new_articles # <<>> THEN "new article(s)" ELSE "",
                             IF removed_articles # <<>> THEN "removed article(s)" ELSE "",
                             IF modified_pages # {} THEN "page(s) modified" ELSE "">>,
                           LAMBDA x : x # "")
    IN  [has_changes |-> new_articles # <<>> \/ removed_articles # <<>> \/ modified_pages # {},
         old_timestamp |-> old.timestamp,
         new_timestamp |-> new.timestamp,
         new_articles |-> new_articles,
         removed_articles |-> removed_articles,
         modified_pages |-> {[path |-> p, change_type |-> "content_modified"] : p \in modified_pages},
         summary |-> IF parts = <<>> THEN <<"No changes detected">> ELSE parts]

\* check: what it returns and the snapshot file it leaves
GMP_check_result(previous_data, fetched, ts) ==
    LET current_data == collect_current_data(fetched, ts)
    IN  IF current_data.article_count = 0
        THEN [result |-> [status |-> "error",
                          error |-> "Failed to fetch articles",
                          has_changes |-> FALSE],
              saved |-> previous_data]
        ELSE IF previous_data = NoFile
        THEN [result |-> [status |-> "first_check",
                          message |-> "First check - baseline saved",
                          article_count |-> current_data.article_count,
                          monitored_pages |-> Cardinality(DOMAIN current_data.page_hashes),
                          has_changes |-> FALSE],
              saved |-> current_data]
        ELSE LET changes == GMP_compare_snapshots(previous_data, current_data)
             IN  [result |-> [status |-> "checked"] @@ changes,
                  saved |-> IF changes.has_changes THEN current_data ELSE previous_data]

\* GMPJournalAnnex1Monitor.check()
GMP_check ==
    /\ monitor = "GMP"
    /\ now < MaxChecks
    /\ \E fetched \in GmpFetches :
        LET out == GMP_check_result(gmp_snap, fetched, now)
        IN  /\ gmp_snap' = out.saved
            /\ Checked("GMP", "annex1", gmp_snap, fetched, out.result)
    /\ UNCHANGED <<monitor, ich_snap, eud_snap, html_snap, cumVars, cmpVars, pipeVars, auxVars>>

\* ------------------------------------------------- the compare step alone
\* the urls of the worked example: old {A, B}, new {B, C}
CmpUrls == {"A.pdf", "B.pdf", "C.pdf"}
\* content_hash values as two snapshot files can hold them
Hashes == {"h1", "h2"}

\* snapshot dicts of ICHGuidelinesMonitor with any hash and any facet lists
ICHSnapshots(ts) ==
    [exists : {TRUE}, category : {"quality"}, timestamp : {ts},
     content_hash : Hashes, response_size : {10, 20},
     guidelines_found : SUBSET GuidelineIds, links_found : SUBSET CmpUrls]

\* snapshot dicts of EudraLexMonitor with any hash and any list of PDFs
EudraSnapshots(ts) ==
    {[EudraLex_extract_documents([ok |-> TRUE, anchors |-> a], ts)
         EXCEPT !.content_hash = h] : a \in AnchorLists(CmpUrls), h \in Hashes}

\* content dicts of HTMLChangeMonitor with any hash, lines and links
HtmlSnapshots(ts) ==
    {[fetch_page_content("u", [ok |-> TRUE, elems |-> p], ts)
         EXCEPT !.content_hash = h] : p \in HtmlPages, h \in Hashes}

\* snapshot dicts of GMPJournalAnnex1Monitor as check passes them on: with
\* at least one article
GmpSnapshots(ts) ==
    {d \in {collect_current_data(f, ts) : f \in GmpFetches} : d.article_count # 0}

NoCompare == [op |-> "none"]

\* the record of a comparison, for the properties
Compared(kind, old, new, result) ==
    /\ cmp' = [op |-> "compare", monitor |-> kind, old |-> old, new |-> new, result |-> result]
    /\ UNCHANGED <<now, cumVars, monVars, pipeVars, auxVars>>

\* ICHGuidelinesMonitor.compare_snapshots(old, new)
ICH_compare ==
    /\ monitor = "ICH"
    /\ cmp = NoCompare
    /\ \E old \in ICHSnapshots(0), new \in ICHSnapshots(1) :
        Compared("ICH", old, new, ICH_compare_snapshots(old, new))

\* EudraLexMonitor.compare_snapshots(old, new)
EudraLex_compare ==
    /\ monitor = "EudraLex"
    /\ cmp = NoCompare
    /\ \E old \in EudraSnapshots(0), new \in EudraSnapshots(1) :
        Compared("EudraLex", old, new, EudraLex_compare_snapshots(old, new))

\* HTMLChangeMonitor.compare_content(old_content, new_content)
HTML_compare ==
    /\ monitor = "HTML"
    /\ cmp = NoCompare
    /\ \E old \in HtmlSnapshots(0), new \in HtmlSnapshots(1) :
        Compared("HTML", old, new, HTML_compare_content(old, new))

\* GMPJournalAnnex1Monitor.compare_snapshots(old, new)
GMP_compare ==
    /\ monitor = "GMP"
    /\ cmp = NoCompare
    /\ \E old \in GmpSnapshots(0), new \in GmpSnapshots(1) :
        Compared("GMP", old, new, GMP_compare_snapshots(old, new))

\* ------------------------------------ run_monitor_pipeline: PMDA and USP
\* the PDF links the PMDA and the USP page can list
PipeLinks == {"p1.pdf", "p2.pdf", "p3.pdf"}
\* pmda.fetch_news(days_back=365, max_pdfs=2)
max_pdfs == 2
\* the links of the articles pmda.fetch_news returns
PmdaListings == {S \in SUBSET PipeLinks : Cardinality(S) <= max_pdfs}
\* the links of the articles usp.fetch_news returns
UspListings == SUBSET PipeLinks
\* the section raised before it appended or saved anything
Raised == [ok |-> FALSE]

\* load_pmda_snapshot, load_usp_snapshot
load_pdfs_snapshot(file) == IF file = NoFile THEN {} ELSE file.links

\* save_pmda_snapshot, save_usp_snapshot: the file written
save_pdfs_snapshot(pdf_links) == [exists |-> TRUE, links |-> pdf_links]

\* section 2: the links it appends an update for and the file it leaves
PMDA_section_result(file, current_pmda_pdfs) ==
    LET previous_pmda_pdfs == load_pdfs_snapshot(file)
        new_pmda_pdfs == current_pmda_pdfs \ previous_pmda_pdfs
    IN  IF current_pmda_pdfs # {}
        THEN IF new_pmda_pdfs # {}
             THEN [appended |-> new_pmda_pdfs,
                   saved |-> save_pdfs_snapshot(current_pmda_pdfs)]
             ELSE [appended |-> {},
                   saved |-> IF previous_pmda_pdfs = {}
                             THEN save_pdfs_snapshot(current_pmda_pdfs)
                             ELSE file]
        ELSE [appended |-> {}, saved |-> file]

\* section 3: the links it appends an update for and the file it leaves
USP_section_result(file, current_pdfs) ==
    LET previous_pdfs == load_pdfs_snapshot(file)
        new_pdfs == current_pdfs \ previous_pdfs
    IN  IF new_pdfs # {}
        THEN [appended |-> new_pdfs, saved |-> save_pdfs_snapshot(current_pdfs)]
        ELSE [appended |-> {},
              saved |-> IF current_pdfs # {}
                        THEN save_pdfs_snapshot(current_pdfs)
                        ELSE file]

\* the update dicts a section appends
UpdatesFor(source, links) == {[source |-> source, link |-> l] : l \in links}

NoSection == [ran |-> FALSE]

\* run_monitor_pipeline up to the PMDA section: updates = []
PipelineStart ==
    /\ pipe_pc = "idle"
    /\ pipe_runs < MaxPipeRuns
    /\ pipe_runs' = pipe_runs + 1
    /\ pipe_pc' = "pmda"
    /\ updates' = {}
    /\ pipe_log' = [pmda |-> NoSection, usp |-> NoSection]
    /\ UNCHANGED <<now, cumVars, monVars, cmpVars, auxVars, pmda_file, usp_file, output_file>>

\* section 2, PMDA Newsletter
PMDASection ==
    /\ pipe_pc = "pmda"
    /\ \E fetched \in [ok : {TRUE}, links : PmdaListings] \cup {Raised} :
        LET out == IF fetched = Raised THEN [appended |-> {}, saved |-> pmda_file]
                   ELSE PMDA_section_result(pmda_file, fetched.links)
        IN  /\ updates' = updates \cup UpdatesFor("PMDA Newsletter", out.appended)
            /\ pmda_file' = out.saved
            /\ pipe_log' = [pipe_log EXCEPT !.pmda =
                               [ran |-> TRUE, before |-> pmda_file, fetched |-> fetched]]
    /\ pipe_pc' = "usp"
    /\ UNCHANGED <<now, cumVars, monVars, cmpVars, auxVars, pipe_runs, usp_file, output_file>>

\* section 3, USP Pending Monographs
USPSection ==
    /\ pipe_pc = "usp"
    /\ \E fetched \in [ok : {TRUE}, links : UspListings] \cup {Raised} :
        LET out == IF fetched = Raised THEN [appended |-> {}, saved |-> usp_file]
                   ELSE USP_section_result(usp_file, fetched.links)
        IN  /\ updates' = updates \cup UpdatesFor("USP Pending Monographs", out.appended)
            /\ usp_file' = out.saved
            /\ pipe_log' = [pipe_log EXCEPT !.usp =
                               [ran |-> TRUE, before |-> usp_file, fetched |-> fetched]]
    /\ pipe_pc' = "save"
    /\ UNCHANGED <<now, cumVars, monVars, cmpVars, auxVars, pipe_runs, pmda_file, output_file>>

\* step 7: monitor_updates_<today>.json is written
PipelineSave ==
    /\ pipe_pc = "save"
    /\ output_file' = [exists |-> TRUE, updates |-> updates]
    /\ pipe_pc' = "idle"
    /\ UNCHANGED <<now, cumVars, monVars, cmpVars, auxVars, pipe_runs, updates, pmda_file, usp_file, pipe_log>>

\* ---------------------------------------------------- the snapshot writers
\* the functions that write a snapshot file, all of them by
\* with open(path, 'w') as f: json.dump(data, f)
Writers ==
    {"ICHGuidelinesMonitor.save_snapshot", "EudraLexMonitor.save_snapshot",
     "GMPJournalAnnex1Monitor.save_snapshot", "HTMLChangeMonitor.save_snapshot",
     "PharmaceuticalOnlineScraper._save_snapshot",
     "save_usp_snapshot", "save_pmda_snapshot"}
\* the entries of a snapshot
Entries == {"a", "b"}
\* the values a writer is given: lists of entries, none twice
SnapshotValues ==
    {v \in UNION {[1..n -> Entries] : n \in 0..Cardinality(Entries)} :
        \A i, j \in DOMAIN v : i # j => v[i] # v[j]}

\* json.dump(data, f): the chunks in the order they are written to f
json_dump(data) == <<"[">> \o data \o <<"]">>

\* json.load raised JSONDecodeError
JSONDecodeError == [ok |-> FALSE]

\* json.load(f) on the text of a file
json_load(text) ==
    IF Len(text) >= 2 /\ text[1] = "[" /\ text[Len(text)] = "]"
    THEN [ok |-> TRUE, exists |-> TRUE, value |-> SubSeq(text, 2, Len(text) - 1)]
    ELSE JSONDecodeError

\* load_previous_snapshot: None when there is no file, else json.load
load_file(file) ==
    IF file = NoFile THEN [ok |-> TRUE, exists |-> FALSE]
    ELSE json_load(file.text)

NoSave == [op |-> "none"]

InitWriter ==
    /\ w_pc = "idle"
    /\ w_file = NoFile
    /\ w_call = NoSave
    /\ w_saves = 0
    /\ w_load = NoSave

\* open(path, 'w'): the file exists and is empty
SaveOpen ==
    /\ monitor \in Writers
    /\ w_pc = "idle"
    /\ w_saves < MaxSaves
    /\ \E data \in SnapshotValues :
        w_call' = [op |-> "save", before |-> w_file, data |-> data]
    /\ w_file' = [exists |-> TRUE, text |-> <<>>]
    /\ w_pc' = "writing"
    /\ w_saves' = w_saves + 1
    /\ UNCHANGED <<now, cumVars, monVars, cmpVars, pipeVars, allVars, histVars, moreVars, w_load>>

\* json.dump writes the next chunk
SaveWrite ==
    /\ w_pc = "writing"
    /\ Len(w_file.text) < Len(json_dump(w_call.data))
    /\ w_file' = [exists |-> TRUE,
                  text |-> Append(w_file.text, json_dump(w_call.data)[Len(w_file.text) + 1])]
    /\ UNCHANGED <<now, cumVars, monVars, cmpVars, pipeVars, allVars, histVars, moreVars, w_pc, w_call, w_saves, w_load>>

\* the with block is left after the last chunk
SaveClose ==
    /\ w_pc = "writing"
    /\ w_file.text = json_dump(w_call.data)
    /\ w_pc' = "idle"
    /\ UNCHANGED <<now, cumVars, monVars, cmpVars, pipeVars, allVars, histVars, moreVars, w_file, w_call, w_saves, w_load>>

\* a write raises (disk full) or the process stops while the file is open
SaveInterrupted ==
    /\ w_pc = "writing"
    /\ w_pc' = "stopped"
    /\ UNCHANGED <<now, cumVars, monVars, cmpVars, pipeVars, allVars, histVars, moreVars, w_file, w_call, w_saves, w_load>>

\* the next run loads the file
LoadAfterStop ==
    /\ w_pc = "stopped"
    /\ w_load' = [op |-> "load",
                  result |-> load_file(w_file),
                  before |-> w_call.before,
                  data |-> w_call.data]
    /\ w_pc' = "idle"
    /\ UNCHANGED <<now, cumVars, monVars, cmpVars, pipeVars, allVars, histVars, moreVars, w_file, w_call, w_saves>>

\* ----------------------------------------------------------- check_all
\* GUIDELINE_PAGES.keys() in the order check_all walks them
CategoryOrder == <<"quality", "safety">>
\* RegulatoryPageMonitor.MONITORED_PAGES.items() in the order check_all
\* walks them
PageOrder == <<"PMDA_JP18", "EudraLex_V4">>

\* a snapshot file that json.load cannot parse
Corrupt == [exists |-> TRUE, corrupt |-> TRUE]

\* what check_category fetches and extracts in a check_all run: a response
\* and the links list(pdfs)[:50] keeps, or nothing
ICHFetches ==
    {[ok |-> TRUE, api_data |-> d, links_found |-> l] :
        d \in {c \in ICHContents : c.guides = {} /\ c.rest = 1},
        l \in SUBSET PdfUrls} \cup {FetchFail}

\* the links_found of a fetch are a choice list(pdfs)[:50] can make
ICHFetchOk(f) ==
    IF f = FetchFail THEN TRUE ELSE f.links_found \in CappedLinks(f.api_data.pdfs)

\* what check_for_changes fetches in a check_all run: a page of at most one
\* element, or nothing
HtmlFetches ==
    {[ok |-> TRUE, elems |-> p] : p \in {q \in HtmlPages : Len(q) <= 1}} \cup {FetchFail}

\* no save fails in this run
NoFault == [target |-> "none"]

\* result["page_name"] = name; result["description"] = config['description']
Named(out, name) ==
    [result |-> out.result @@ [page_name |-> name, description |-> name],
     saved |-> out.saved]

\* one iteration of a check_all loop on a readable snapshot file
CheckOne(kind, target, file, fetched, ts) ==
    IF kind = "ICH"
    THEN ICH_check_category(file,
                            IF fetched = FetchFail THEN FetchFail ELSE fetched.api_data,
                            target,
                            IF fetched = FetchFail THEN {} ELSE fetched.links_found,
                            ts)
    ELSE Named(HTML_check_for_changes(file, fetch_page_content(target, fetched, ts), target),
               target)

\* save_snapshot is called by this iteration
SaveAttempted(result) ==
    result.status = "first_check" \/ Get(result, "has_changes", FALSE)

\* the position of a target in the order check_all walks
IndexOf(order, target) == CHOOSE i \in DOMAIN order : order[i] = target

\* a loop that returns at the first target whose fetch failed
StopAtError(order, snaps, fetched, alone) ==
    LET Failed == {i \in DOMAIN order : fetched[order[i]] = FetchFail}
        stop == IF Failed = {} THEN Len(order)
                ELSE CHOOSE i \in Failed : \A j \in Failed : i <= j
    IN  [snaps |-> [t \in DOMAIN snaps |->
                      IF IndexOf(order, t) <= stop THEN alone[IndexOf(order, t)].saved
                      ELSE snaps[t]],
         results |-> [i \in 1..stop |-> alone[i].result],
         raised |-> FALSE]

\* a check_all that returns at the first target whose fetch failed
CheckAllLoop_StopAtError(kind, order, snaps, fetched, fault, ts) ==
    StopAtError(order, snaps, fetched,
                [i \in DOMAIN order |->
                    CheckOne(kind, order[i], snaps[order[i]], fetched[order[i]], ts)])

\* the for loop of check_all, given for every position what the iteration
\* returns and saves when nothing raises: the snapshot files the loop leaves,
\* the results it has appended and whether an exception left it. json.load
\* raises on a file it cannot parse; a save_snapshot that raises has either
\* failed in open(), leaving the file, or after it, leaving a truncated
\* file. Neither call is inside a try, so the loop ends at the first
\* iteration that raises.
LoopOutcome(order, snaps, fetched, fault, alone) ==
    LET LoadRaises(i) == fetched[order[i]] # FetchFail /\ snaps[order[i]] = Corrupt
        SaveRaises(i) ==
            /\ fetched[order[i]] # FetchFail
            /\ snaps[order[i]] # Corrupt
            /\ fault.target = order[i]
            /\ SaveAttempted(alone[i].result)
        Raisers == {i \in DOMAIN order : LoadRaises(i) \/ SaveRaises(i)}
        stop == IF Raisers = {} THEN Len(order) + 1
                ELSE CHOOSE i \in Raisers : \A j \in Raisers : i <= j
    IN  [snaps |-> [t \in DOMAIN snaps |->
                      LET i == IndexOf(order, t)
                      IN  IF i < stop /\ fetched[t] # FetchFail THEN alone[i].saved
                          ELSE IF i = stop /\ SaveRaises(i) /\ fault.truncated THEN Corrupt
                          ELSE snaps[t]],
         results |-> [i \in 1..(stop - 1) |-> alone[i].result],
         raised |-> Raisers # {}]

\* the for loop of check_all. Every target has a file of its own, so an
\* iteration meets the file the call found.
CheckAllLoop(kind, order, snaps, fetched, fault, ts) ==
    LoopOutcome(order, snaps, fetched, fault,
                [i \in DOMAIN order |->
                    CheckOne(kind, order[i],
                             IF snaps[order[i]] = Corrupt THEN NoFile ELSE snaps[order[i]],
                             fetched[order[i]], ts)])

NoAllRun == [op |-> "none"]

InitAll ==
    /\ all_run = NoAllRun
    /\ all_runs = 0

\* the record of a check_all call, for the properties
CheckedAll(kind, caller, order, before, fetched, fault, out) ==
    /\ all_run' = [op |-> "check_all", monitor |-> kind, caller |-> caller,
                   order |-> order, before |-> before, fetched |-> fetched,
                   fault |-> fault, ts |-> now,
                   results |-> out.results, raised |-> out.raised]
    /\ all_runs' = all_runs + 1
    /\ now' = now + 1

\* ICHGuidelinesMonitor.check_all()
ICH_check_all ==
    /\ monitor = "ICH"
    /\ all_runs < MaxAllRuns
    /\ \E fetched \in [Categories -> ICHFetches] :
        /\ \A c \in Categories : ICHFetchOk(fetched[c])
        /\ LET out == CheckAllLoop("ICH", CategoryOrder, ich_snap, fetched, NoFault, now)
           IN  /\ ich_snap' = out.snaps
               /\ CheckedAll("ICH", "main", CategoryOrder, ich_snap, fetched, NoFault, out)
    /\ UNCHANGED <<monitor, eud_snap, html_snap, gmp_snap, cur, last,
                   cumVars, cmpVars, pipeVars, wrVars, histVars, moreVars>>

\* RegulatoryPageMonitor.check_all()
HTML_check_all ==
    /\ monitor = "HTML"
    /\ all_runs < MaxAllRuns
    /\ \E fetched \in [HtmlUrls -> HtmlFetches] :
        LET out == CheckAllLoop("HTML", PageOrder, html_snap, fetched, NoFault, now)
        IN  /\ html_snap' = out.snaps
            /\ CheckedAll("HTML", "main", PageOrder, html_snap, fetched, NoFault, out)
    /\ UNCHANGED <<monitor, ich_snap, eud_snap, gmp_snap, cur, last,
                   cumVars, cmpVars, pipeVars, wrVars, histVars, moreVars>>

\* the save_snapshot of one target raises: in open(), or after open() has
\* truncated the file
SaveFaults(targets) == [target : targets, truncated : BOOLEAN]

\* the fetches of the runs in which a save fails
ICHFaultFetches ==
    {f \in ICHFetches :
        IF f = FetchFail THEN TRUE
        ELSE f.api_data.pdfs \subseteq {"a.pdf"} /\ f.links_found = f.api_data.pdfs}

HtmlFaultFetches ==
    {f \in HtmlFetches :
        IF f = FetchFail THEN TRUE
        ELSE \A i \in DOMAIN f.elems : f.elems[i].text = "t" /\ f.elems[i].href = NoHref}

\* ICHGuidelinesMonitor.check_all() in which one save_snapshot raises
ICH_check_all_fault ==
    /\ monitor = "ICH"
    /\ all_runs < MaxAllRuns
    /\ \E fetched \in [Categories -> ICHFaultFetches], fault \in SaveFaults(Categories) :
        LET out == CheckAllLoop("ICH", CategoryOrder, ich_snap, fetched, fault, now)
        IN  /\ ich_snap' = out.snaps
            /\ CheckedAll("ICH", "main", CategoryOrder, ich_snap, fetched, fault, out)
    /\ UNCHANGED <<monitor, eud_snap, html_snap, gmp_snap, cur, last,
                   cumVars, cmpVars, pipeVars, wrVars, histVars, moreVars>>

\* RegulatoryPageMonitor.check_all() in which one save_snapshot raises
HTML_check_all_fault ==
    /\ monitor = "HTML"
    /\ all_runs < MaxAllRuns
    /\ \E fetched \in [HtmlUrls -> HtmlFaultFetches], fault \in SaveFaults(HtmlUrls) :
        LET out == CheckAllLoop("HTML", PageOrder, html_snap, fetched, fault, now)
        IN  /\ html_snap' = out.snaps
            /\ CheckedAll("HTML", "main", PageOrder, html_snap, fetched, fault, out)
    /\ UNCHANGED <<monitor, ich_snap, eud_snap, gmp_snap, cur, last,
                   cumVars, cmpVars, pipeVars, wrVars, histVars, moreVars>>

\* run_monitor_pipeline from its start through section 1, ICH Guidelines:
\* check_all is called outside any try, so an exception from it leaves
\* run_monitor_pipeline before section 2; otherwise the new pdf links of the
\* changed categories are appended and section 2 is next
PipelineICHStage ==
    /\ monitor = "pipeline"
    /\ pipe_pc \in {"idle", "aborted"}
    /\ all_runs < MaxAllRuns
    /\ \E fetched \in [Categories -> ICHFaultFetches],
          fault \in SaveFaults(Categories) \cup {NoFault} :
        LET out == CheckAllLoop("ICH", CategoryOrder, ich_snap, fetched, fault, now)
            found == UNION {Get(out.results[i], "new_links", {}) : i \in DOMAIN out.results}
        IN  /\ ich_snap' = out.snaps
            /\ CheckedAll("ICH", "pipeline", CategoryOrder, ich_snap, fetched, fault, out)
            /\ pipe_pc' = IF out.raised THEN "aborted" ELSE "pmda"
            /\ updates' = IF out.raised THEN {} ELSE UpdatesFor("ICH Guidelines", found)
    /\ pipe_runs' = pipe_runs + 1
    /\ pipe_log' = [pmda |-> NoSection, usp |-> NoSection]
    /\ UNCHANGED <<monitor, eud_snap, html_snap, gmp_snap, cur, last,
                   cumVars, cmpVars, pmda_file, usp_file, output_file, wrVars, histVars, moreVars>>

\* ------------------------------------------- one target, check after check
NoHistRun == [op |-> "none"]

InitHist ==
    /\ hist_new = {}
    /\ hist_run = NoHistRun
    /\ hist_n = 0

\* the record of one more check or run of the target, for the properties
Reported(target, links) ==
    /\ hist_run' = [op |-> "check", target |-> target, reported |-> links,
                    earlier |-> hist_new]
    /\ hist_new' = hist_new \cup links
    /\ hist_n' = hist_n + 1
    /\ now' = now + 1

\* the pages of the successive EudraLex checks: every anchor titled "t"
EudraHistPages == {p \in EudraPages : \A i \in DOMAIN p.anchors : p.anchors[i].title = "t"}

\* check_category("quality") once more
ICH_check_next ==
    /\ monitor = "ICH"
    /\ hist_n < MaxHistChecks
    /\ \E fetched \in ICHFetches :
        /\ ICHFetchOk(fetched)
        /\ LET out == CheckOne("ICH", "quality", ich_snap["quality"], fetched, now)
           IN  /\ ich_snap' = [ich_snap EXCEPT !["quality"] = out.saved]
               /\ Reported("quality", Get(out.result, "new_links", {}))
    /\ UNCHANGED <<monitor, eud_snap, html_snap, gmp_snap, cur, last,
                   cumVars, cmpVars, pipeVars, wrVars, allVars, moreVars, moreVars>>

\* EudraLexMonitor.check() once more
EudraLex_check_next ==
    /\ monitor = "EudraLex"
    /\ hist_n < MaxHistChecks
    /\ \E soup \in EudraHistPages \cup {FetchFail} :
        LET out == EudraLex_check_result(eud_snap, soup, now)
        IN  /\ eud_snap' = out.saved
            /\ Reported("eudralex_vol4", UrlsOf(Get(out.result, "new_pdfs", <<>>)))
    /\ UNCHANGED <<monitor, ich_snap, html_snap, gmp_snap, cur, last,
                   cumVars, cmpVars, pipeVars, wrVars, allVars, moreVars, moreVars>>

\* ------------------------------------- one link tracker, run after run
\* what a section meets: the listing, and where its loop over the new
\* articles stops: done is all the new links when the loop does not raise,
\* otherwise the new links whose update it had appended when it raised
TrackerRuns(listings) ==
    {[ok |-> TRUE, links |-> c, done |-> d] : c \in listings, d \in SUBSET PipeLinks}

\* a section whose loop raised after the updates of done: its except branch
\* is reached before save_pmda_snapshot / save_usp_snapshot, and the updates
\* appended so far stay in the list
SectionOutcome(full, file, new, done) ==
    IF done = new THEN full ELSE [appended |-> done, saved |-> file]

\* section 2 of the next pipeline run
PMDA_section_next ==
    /\ monitor = "PMDA"
    /\ hist_n < MaxTrackRuns
    /\ \E run \in TrackerRuns(PmdaListings) \cup {Raised} :
        LET new == IF run = Raised THEN {} ELSE run.links \ load_pdfs_snapshot(pmda_file)
            out == IF run = Raised THEN [appended |-> {}, saved |-> pmda_file]
                   ELSE SectionOutcome(PMDA_section_result(pmda_file, run.links),
                                       pmda_file, new, run.done)
        IN  /\ IF run = Raised THEN TRUE ELSE run.done \subseteq new
            /\ pmda_file' = out.saved
            /\ Reported("PMDA Newsletter", out.appended)
    /\ UNCHANGED <<cumVars, monVars, cmpVars, wrVars, allVars, moreVars,
                   pipe_pc, pipe_runs, updates, usp_file, pipe_log, output_file>>

\* section 3 of the next pipeline run
USP_section_next ==
    /\ monitor = "USP"
    /\ hist_n < MaxTrackRuns
    /\ \E run \in TrackerRuns(UspListings) \cup {Raised} :
        LET new == IF run = Raised THEN {} ELSE run.links \ load_pdfs_snapshot(usp_file)
            out == IF run = Raised THEN [appended |-> {}, saved |-> usp_file]
                   ELSE SectionOutcome(USP_section_result(usp_file, run.links),
                                       usp_file, new, run.done)
        IN  /\ IF run = Raised THEN TRUE ELSE run.done \subseteq new
            /\ usp_file' = out.saved
            /\ Reported("USP Pending Monographs", out.appended)
    /\ UNCHANGED <<cumVars, monVars, cmpVars, wrVars, allVars, moreVars,
                   pipe_pc, pipe_runs, updates, pmda_file, pipe_log, output_file>>

\* ----------------------------------------------- the aggregate reports
\* ICHGuidelinesMonitor.generate_report: the line written for one result
ICH_report_line(result) ==
    IF Get(result, "has_changes", FALSE) THEN "CHANGES"
    ELSE IF Get(result, "status", "") = "first_check" THEN "First check - baseline saved"
    ELSE IF Get(result, "status", "") = "error" THEN "Error"
    ELSE "No changes"

\* ICHGuidelinesMonitor.generate_report: its last line
ICH_report_footer(results) ==
    IF \E i \in DOMAIN results : Get(results[i], "has_changes", FALSE)
    THEN "ACTION REQUIRED: Review changes"
    ELSE "All ICH guidelines unchanged"

\* RegulatoryPageMonitor.check_all: what it prints for one result
HTML_console_line(result) ==
    IF Get(result, "has_changes", FALSE) THEN "[CHANGE DETECTED]"
    ELSE IF Get(result, "status", "") = "first_check" THEN "[FIRST CHECK] Baseline saved"
    ELSE "[NO CHANGES]"

\* RegulatoryPageMonitor.run_and_report_all: the line written for one result
HTML_report_line(result) ==
    IF Get(result, "has_changes", FALSE) THEN "CHANGES DETECTED"
    ELSE IF Get(result, "status", "") = "first_check" THEN "First check - baseline saved"
    ELSE "No changes detected"

\* RegulatoryPageMonitor.run_and_report_all: its last line
HTML_report_footer(results) ==
    IF \E i \in DOMAIN results : Get(results[i], "has_changes", FALSE)
    THEN "ACTION REQUIRED: Review changes above"
    ELSE "All pages unchanged"

\* ------------------------------------- two fetch_news runs at the same time
\* the processes that run fetch_news against the same article_links.json
Procs == {1, 2}

NoConcRun == [op |-> "none"]

InitConc ==
    /\ conc_pc = [p \in Procs |-> "idle"]
    /\ conc_prev = [p \in Procs |-> {}]
    /\ conc_seen = {}
    /\ conc_run = NoConcRun
    /\ conc_n = 0

\* fetch_news of process p up to line 257: previous_links is loaded. Nothing
\* locks the file between here and the write
fetch_news_load(p) ==
    /\ conc_pc[p] = "idle"
    /\ conc_n < MaxConcRuns
    /\ conc_n' = conc_n + 1
    /\ conc_prev' = [conc_prev EXCEPT ![p] = load_snapshot(cum_file, TRUE)]
    /\ conc_pc' = [conc_pc EXCEPT ![p] = "loaded"]
    /\ UNCHANGED <<now, cumVars, monVars, cmpVars, pipeVars, wrVars, allVars, histVars,
                   interVars, detVars, mainVars, conc_seen, conc_run>>

\* the rest of fetch_news of process p: the hubs are collected, every detail
\* fetch yields an article, the snapshot is written and the articles returned
fetch_news_finish(p) ==
    /\ conc_pc[p] = "loaded"
    /\ \E current_links \in SUBSET Links :
        LET previous_links == conc_prev[p]
            is_first_run == Cardinality(previous_links) = 0
            new_links == NewLinks(current_links, previous_links)
        IN  /\ cum_file' = save_snapshot(current_links, previous_links)
            /\ conc_run' = [op |-> "fetch", proc |-> p,
                            previous_links |-> previous_links,
                            current_links |-> current_links,
                            articles |-> ReturnedArticles(is_first_run, new_links, Links),
                            earlier |-> IF conc_run = NoConcRun THEN {}
                                        ELSE conc_run.earlier \cup conc_run.articles]
            /\ conc_seen' = conc_seen \cup current_links
    /\ conc_pc' = [conc_pc EXCEPT ![p] = "idle"]
    /\ now' = now + 1
    /\ UNCHANGED <<cum_run, cum_trace, ever_new, monVars, cmpVars, pipeVars,
                   wrVars, allVars, histVars, interVars, detVars, mainVars, conc_prev, conc_n>>

\* --------------------------------- checks of two targets at the same time
\* ICHGuidelinesMonitor._get_snapshot_path: one file per category
ICH_get_snapshot_path_Shared(category) == <<"ich_", "all", "_snapshot.json">>

ICH_get_snapshot_path(category) == <<"ich_", category, "_snapshot.json">>

\* PageMonitor._get_snapshot_path: one file per URL
HTML_get_snapshot_path(url) == <<"snapshot_", Md5Prefix(url), ".json">>

SnapshotPath(kind, target) ==
    IF kind = "ICH" THEN ICH_get_snapshot_path(target) ELSE HTML_get_snapshot_path(target)

\* the target each of the two processes checks
TargetOf(kind, p) == IF kind = "ICH" THEN CategoryOrder[p] ELSE PageOrder[p]

NoInterRun == [op |-> "none"]

\* the file at a path of the snapshot directory
FileAt(dir, path) == IF path \in DOMAIN dir THEN dir[path] ELSE NoFile

\* the snapshot directory after a file is written at a path
WriteAt(dir, path, file) ==
    [f \in DOMAIN dir \cup {path} |-> IF f = path THEN file ELSE dir[f]]

\* the snapshot directory is empty
InitInter ==
    /\ int_pc = [p \in Procs |-> "idle"]
    /\ int_files = <<>>
    /\ int_run = [p \in Procs |-> NoInterRun]
    /\ int_own = [p \in Procs |-> NoFile]
    /\ int_n = 0
    /\ int_overlap = FALSE

\* process p fetches its target and, unless the fetch failed, loads the
\* previous snapshot from the target's path
check_load(p) ==
    /\ int_pc[p] = "idle"
    /\ int_n < MaxInterChecks
    /\ monitor \in {"ICH", "HTML"}
    /\ \E fetched \in IF monitor = "ICH" THEN ICHFetches ELSE HtmlFetches :
        /\ monitor = "ICH" => ICHFetchOk(fetched)
        /\ int_run' = [int_run EXCEPT ![p] =
                          [op |-> "load",
                           target |-> TargetOf(monitor, p),
                           fetched |-> fetched,
                           ts |-> int_n + 1,
                           before |-> FileAt(int_files, SnapshotPath(monitor, TargetOf(monitor, p)))]]
    /\ int_n' = int_n + 1
    /\ int_pc' = [int_pc EXCEPT ![p] = "loaded"]
    /\ int_overlap' = (int_overlap \/ \E q \in Procs \ {p} : int_pc[q] = "loaded")
    /\ UNCHANGED <<now, cumVars, monVars, cmpVars, pipeVars, wrVars, allVars, histVars,
                   concVars, detVars, mainVars, int_files, int_own>>

\* what the rest of the check of process p leaves, given what the check
\* returns for the file it loaded and for the file its own checks left
Returned(p, out, alone) ==
    /\ int_files' =
          IF int_run[p].fetched # FetchFail /\ SaveAttempted(out.result)
          THEN WriteAt(int_files, SnapshotPath(monitor, int_run[p].target), out.saved)
          ELSE int_files
    /\ int_own' = [int_own EXCEPT ![p] = alone.saved]
    /\ int_run' = [int_run EXCEPT ![p] =
                      [op |-> "check", target |-> int_run[p].target,
                       fetched |-> int_run[p].fetched, ts |-> int_run[p].ts,
                       before |-> int_run[p].before,
                       result |-> out.result, alone |-> alone.result]]

\* process p compares, saves when there is a change, and returns
check_return(p) ==
    /\ int_pc[p] = "loaded"
    /\ Returned(p,
                CheckOne(monitor, int_run[p].target, int_run[p].before,
                         int_run[p].fetched, int_run[p].ts),
                CheckOne(monitor, int_run[p].target, int_own[p],
                         int_run[p].fetched, int_run[p].ts))
    /\ int_pc' = [int_pc EXCEPT ![p] = "idle"]
    /\ UNCHANGED <<now, cumVars, monVars, cmpVars, pipeVars, wrVars, allVars, histVars,
                   concVars, detVars, mainVars, int_n, int_overlap>>

\* what _parse_article does for a link: it returns an article, returns
\* None (HTTP failure, no title, no keyword) or raises
Outcomes == {"article", "nothing", "raised"}

\* the links fetch_news hands to _save_snapshot after the detail loop, a
\* variant that hands over only the links that gave an article
SeenAfterDetail_ParsedOnly(current_links, new_links, articles) ==
    (current_links \ new_links) \cup articles

\* the links fetch_news hands to _save_snapshot after the detail loop
SeenAfterDetail(current_links, new_links, articles) == current_links

\* fetch_news with the outcome of every detail fetch: the loop catches what
\* _parse_article raises and goes on, and the snapshot is written after it
fetch_news_detail ==
    /\ now < MaxRuns
    /\ \E current_links \in SUBSET Links :
        LET previous_links == load_snapshot(cum_file, TRUE)
            is_first_run == Cardinality(previous_links) = 0
            new_links == NewLinks(current_links, previous_links)
        IN  \E outcome \in [IF is_first_run THEN {} ELSE new_links -> Outcomes] :
                LET articles == {l \in DOMAIN outcome : outcome[l] = "article"}
                IN  /\ cum_file' = save_snapshot(
                                      IF is_first_run \/ new_links = {} THEN current_links
                                      ELSE SeenAfterDetail(current_links, new_links, articles),
                                      previous_links)
                    /\ cum_run' = [op |-> "fetch",
                                   before |-> cum_file,
                                   readOk |-> TRUE,
                                   previous_links |-> previous_links,
                                   current_links |-> current_links,
                                   is_first_run |-> is_first_run,
                                   new_links |-> new_links,
                                   outcome |-> outcome,
                                   articles |-> ReturnedArticles(is_first_run, new_links, articles)]
                    /\ det_failed' = det_failed \cup (DOMAIN outcome \ articles)
                    /\ ever_new' = ever_new \cup new_links
    /\ now' = now + 1
    /\ UNCHANGED <<cum_trace, monVars, cmpVars, pipeVars, wrVars, allVars, histVars,
                   concVars, interVars, mainVars>>

\* ---------------------------------------------------- run_pipeline.main
NoMainRun == [op |-> "none"]

InitMain ==
    /\ main_pc = "idle"
    /\ main_n = 0
    /\ main_log = NoMainRun

\* main up to its monitor step: run_step starts monitor_pipeline.py
MainStart ==
    /\ main_pc = "idle"
    /\ pipe_pc = "idle"
    /\ main_n < MaxMainRuns
    /\ main_n' = main_n + 1
    /\ main_pc' = "monitor"
    /\ UNCHANGED <<now, cumVars, monVars, cmpVars, pipeVars, wrVars, allVars, histVars,
                   concVars, interVars, detVars, main_log>>

\* the monitor step begins run_monitor_pipeline
MonitorStepStart ==
    /\ main_pc = "monitor"
    /\ pipe_runs < main_n
    /\ PipelineStart

\* the monitor step ends before step 7 has written the output file: the
\* script raises (ICHGuidelinesMonitor.check_all is called outside any try)
\* or cannot be run, and run_step returns False
MonitorStepFails ==
    /\ main_pc = "monitor"
    /\ pipe_runs < main_n
    /\ pipe_pc = "idle"
    /\ pipe_runs' = pipe_runs + 1
    /\ pipe_pc' = "aborted"
    /\ updates' = {}
    /\ UNCHANGED <<now, cumVars, monVars, cmpVars, wrVars, allVars, histVars, moreVars,
                   pmda_file, usp_file, pipe_log, output_file>>

\* the reporting part of main, given whether the monitor file holds updates:
\* the value run_step returned for the monitor step is not looked at
MainReported(monitor_ok, has_updates) ==
    /\ main_log' = [op |-> "main",
                    monitor_ok |-> monitor_ok,
                    found |-> IF monitor_ok THEN updates ELSE {},
                    before |-> output_file,
                    emailed |-> has_updates,
                    mailed |-> IF has_updates THEN output_file.updates ELSE {}]
    /\ main_pc' = "idle"
    /\ pipe_pc' = "idle"

\* part 3 of main after the monitor step has returned
MainReport ==
    /\ main_pc = "monitor"
    /\ pipe_runs = main_n
    /\ pipe_pc \in {"idle", "aborted"}
    /\ MainReported(pipe_pc = "idle",
                    IF output_file = NoFile THEN FALSE ELSE output_file.updates # {})
    /\ UNCHANGED <<now, cumVars, monVars, cmpVars, wrVars, allVars, histVars,
                   concVars, interVars, detVars, main_n,
                   pipe_runs, updates, pmda_file, usp_file, pipe_log, output_file>>

Monitors == {"ICH", "EudraLex", "HTML", "GMP"}

Targets == Categories \cup {"eudralex_vol4"} \cup HtmlUrls \cup {"annex1"}

NoCheck == [op |-> "none"]

\* no snapshot directory holds a file
InitMonFiles ==
    /\ ich_snap = [c \in Categories |-> NoFile]
    /\ eud_snap = NoFile
    /\ html_snap = [u \in HtmlUrls |-> NoFile]
    /\ gmp_snap = NoFile
    /\ cur = NoCheck
    /\ last = [t \in Targets |-> [status |-> "none"]]

\* the pipeline has not run, its trackers have no snapshot file
InitPipe ==
    /\ pipe_pc = "idle"
    /\ pipe_runs = 0
    /\ updates = {}
    /\ pmda_file = NoFile
    /\ usp_file = NoFile
    /\ pipe_log = [pmda |-> NoSection, usp |-> NoSection]
    /\ output_file = NoFile

\* a fresh installation
InitFiles ==
    /\ now = 0
    /\ InitCum
    /\ InitMonFiles
    /\ InitPipe
    /\ InitWriter
    /\ InitAll
    /\ InitHist
    /\ InitConc
    /\ InitInter
    /\ det_failed = {}
    /\ InitMain
    /\ cmp = NoCompare

\* one of the monitors is constructed
Init ==
    /\ InitFiles
    /\ monitor \in Monitors

\* the scraper is constructed, no monitor
InitScraper ==
    /\ InitFiles
    /\ monitor = "none"

\* monitor_pipeline.py is started
InitPipeline ==
    /\ InitFiles
    /\ monitor = "pipeline"

Next == ICH_check \/ EudraLex_check \/ HTML_check \/ GMP_check

\* the snapshot monitors
Spec == Init /\ [][Next]_vars

NextCmp == ICH_compare \/ EudraLex_compare \/ HTML_compare \/ GMP_compare

\* one call of the compare function of a monitor on any two snapshots
SpecCmp == Init /\ [][NextCmp]_vars

NextPipe == PipelineStart \/ PMDASection \/ USPSection \/ PipelineSave

\* runs of run_monitor_pipeline
SpecPipe == InitPipeline /\ [][NextPipe]_vars

\* a snapshot writer is about to be used
InitWrite ==
    /\ InitFiles
    /\ monitor \in Writers

NextWrite == SaveOpen \/ SaveWrite \/ SaveClose \/ SaveInterrupted \/ LoadAfterStop

\* saves of a snapshot file that can be interrupted
SpecWrite == InitWrite /\ [][NextWrite]_vars

\* a monitor with several targets is constructed
InitMulti ==
    /\ InitFiles
    /\ monitor \in {"ICH", "HTML"}

NextAll == ICH_check_all \/ HTML_check_all

\* check_all runs; every snapshot file can be read and written
SpecAll == InitMulti /\ [][NextAll]_vars

InitMultiFault ==
    /\ InitFiles
    /\ monitor \in {"ICH", "HTML", "pipeline"}

NextAllFault ==
    \/ ICH_check_all
    \/ HTML_check_all
    \/ ICH_check_all_fault
    \/ HTML_check_all_fault
    \/ PipelineICHStage

\* check_all runs, alone or as section 1 of the pipeline; a save can raise
SpecAllFault == InitMultiFault /\ [][NextAllFault]_vars

InitHistory ==
    /\ InitFiles
    /\ monitor \in {"ICH", "EudraLex"}

NextHist == ICH_check_next \/ EudraLex_check_next

\* one ICH category or EudraLex Volume 4, check after check
SpecHist == InitHistory /\ [][NextHist]_vars

InitTrack ==
    /\ InitFiles
    /\ monitor \in {"PMDA", "USP"}

NextTrack == PMDA_section_next \/ USP_section_next

\* the PMDA or the USP section of the pipeline, run after run
SpecTrack == InitTrack /\ [][NextTrack]_vars

NextConc == \E p \in Procs : fetch_news_load(p) \/ fetch_news_finish(p)

\* two processes run fetch_news against the same snapshot file
SpecConc == InitScraper /\ [][NextConc]_vars

NextInter == \E p \in Procs : check_load(p) \/ check_return(p)

\* two processes check two distinct targets of one monitor at the same time
SpecInter == InitMulti /\ [][NextInter]_vars

\* fetch_news runs in which detail fetches fail
SpecCumDetail == InitScraper /\ [][fetch_news_detail]_vars

NextMain ==
    \/ MainStart
    \/ MonitorStepStart
    \/ MonitorStepFails
    \/ (main_pc = "monitor" /\ (PMDASection \/ USPSection \/ PipelineSave))
    \/ MainReport

\* run_pipeline.main is run several times on one day
SpecMain == InitPipeline /\ [][NextMain]_vars

NextCum == fetch_news \/ main_reset

NextCumFault == fetch_news \/ fetch_news_unreadable \/ main_reset

NextCumSave == fetch_news \/ fetch_news_save_fails

\* the cumulative tracker, writes of the snapshot file may fail
SpecCumSave == InitScraper /\ [][NextCumSave]_vars

\* the cumulative tracker, snapshot file readable
SpecCum == InitScraper /\ [][NextCum]_vars

\* the cumulative tracker, reads of the snapshot file may fail
SpecCumFault == InitScraper /\ [][NextCumFault]_vars

\* ------------------------------------------------ claims, snapshot monitors
\* the snapshot file of a target as it is now
SnapshotOf(kind, target) ==
    CASE kind = "ICH" -> ich_snap[target]
      [] kind = "EudraLex" -> eud_snap
      [] kind = "HTML" -> html_snap[target]
      [] kind = "GMP" -> gmp_snap

\* the fetch of a check gave the monitor something to extract from (for the
\* GMP Journal: the search listed at least one article)
FetchSucceeded(c) ==
    IF c.monitor = "GMP"
    THEN /\ c.fetched.search # FetchFail
         /\ c.fetched.search.articles # <<>>
    ELSE c.fetched # FetchFail

\* C1: for a target with no stored snapshot the first successful check of
\* any of the four snapshot monitors returns status 'first_check' with
\* has_changes = false whatever the content and leaves a snapshot file, and
\* the check after it, when it observes the same content, returns
\* has_changes = false too.
C1_BaselineIdempotence ==
    cur.op = "check" =>
        /\ (cur.before = NoFile /\ FetchSucceeded(cur)) =>
            /\ cur.result.status = "first_check"
            /\ Get(cur.result, "has_changes", TRUE) = FALSE
            /\ SnapshotOf(cur.monitor, cur.target) # NoFile
        /\ (cur.prev.status = "first_check" /\ cur.fetched = cur.prev.fetched) =>
            /\ cur.result.status = "checked"
            /\ Get(cur.result, "has_changes", TRUE) = FALSE

\* the check after the baseline of an ICH category sees the same response
C1_Witness ==
    /\ cur.op = "check"
    /\ cur.monitor = "ICH"
    /\ cur.prev.status = "first_check"
    /\ cur.fetched = cur.prev.fetched
    /\ cur.fetched.pdfs = PdfUrls
    /\ cur.result.has_changes = FALSE

\* what a tracker section of the current pipeline run appended to updates
AppendedBy(source) == {u \in updates : u.source = source}

\* C2: in a run of run_monitor_pipeline that finds the snapshot file of the
\* PMDA or of the USP tracker absent, no update of that source is appended
\* to updates, whatever links the source lists, and the listed links are
\* written as the baseline.
C2_PipelineBaseline ==
    /\ (pipe_log.pmda.ran /\ pipe_log.pmda.before = NoFile /\ pipe_log.pmda.fetched # Raised) =>
        /\ AppendedBy("PMDA Newsletter") = {}
        /\ pipe_log.pmda.fetched.links # {} =>
            pmda_file = save_pdfs_snapshot(pipe_log.pmda.fetched.links)
    /\ (pipe_log.usp.ran /\ pipe_log.usp.before = NoFile /\ pipe_log.usp.fetched # Raised) =>
        /\ AppendedBy("USP Pending Monographs") = {}
        /\ pipe_log.usp.fetched.links # {} =>
            usp_file = save_pdfs_snapshot(pipe_log.usp.fetched.links)

\* ------------------------------------------------ claims, cumulative tracker
\* C3: without a reset, the set of links persisted after a fetch_news run is
\* a superset of the set persisted before it, so its size never decreases.
C3_SeenSetMonotone ==
    [][cum_run'.op = "fetch" =>
        /\ StoredLinks(cum_file) \subseteq StoredLinks(cum_file')
        /\ Cardinality(StoredLinks(cum_file)) <= Cardinality(StoredLinks(cum_file'))]_vars

\* a run whose listing shrank to a proper subset of what was stored
C3_Witness ==
    /\ cum_run.op = "fetch"
    /\ cum_run.current_links \subseteq StoredLinks(cum_run.before)
    /\ cum_run.current_links # StoredLinks(cum_run.before)
    /\ StoredLinks(cum_file) = StoredLinks(cum_run.before)

\* C4: a link that was in new_links of one run is in new_links of no later
\* run (until a reset), also when it left the listing and came back.
C4_NewAtMostOnce ==
    [][cum_run'.op = "fetch" => cum_run'.new_links \cap ever_new = {}]_vars

\* a link listed in run 1, gone in run 2 and listed again in run 3
C4_Witness ==
    /\ cum_run.op = "fetch"
    /\ Len(cum_trace) = 3
    /\ \E l \in Links :
        /\ l \in cum_trace[1]
        /\ l \notin cum_trace[2]
        /\ l \in cum_trace[3]
        /\ l \notin cum_run.new_links

\* C5: in every run new_links = current_links minus the previously persisted
\* set and the set persisted at the end = previous union current; the runs
\* {1,2}, {2,3}, {1} from no snapshot give new sets (baseline), {3}, {} and
\* stored sets {1,2}, {1,2,3}, {1,2,3}.
C5_MergeResult ==
    /\ cum_run.op # "none" =>
        /\ cum_run.new_links = cum_run.current_links \ StoredLinks(cum_run.before)
        /\ StoredLinks(cum_file) = StoredLinks(cum_run.before) \cup cum_run.current_links
    /\ cum_trace = <<{1, 2}>> =>
        /\ cum_run.is_first_run
        /\ cum_run.articles = {}
        /\ StoredLinks(cum_file) = {1, 2}
    /\ cum_trace = <<{1, 2}, {2, 3}>> =>
        /\ cum_run.new_links = {3}
        /\ StoredLinks(cum_file) = {1, 2, 3}
    /\ cum_trace = <<{1, 2}, {2, 3}, {1}>> =>
        /\ cum_run.new_links = {}
        /\ cum_run.articles = {}
        /\ StoredLinks(cum_file) = {1, 2, 3}

\* the third run of the example sequence
C5_Witness ==
    /\ cum_run.op = "fetch"
    /\ cum_trace = <<{1, 2}, {2, 3}, {1}>>

\* C6: a run that finds the persisted set empty or absent returns no article
\* whatever current_links holds and persists current_links; articles are
\* returned only by runs that found a non-empty persisted set.
C6_FirstRunNotActionable ==
    cum_run.op # "none" =>
        /\ StoredLinks(cum_run.before) = {} =>
            /\ cum_run.articles = {}
            /\ StoredLinks(cum_file) = cum_run.current_links
        /\ cum_run.articles # {} => StoredLinks(cum_run.before) # {}

\* a first run against a hub that lists every link
C6_Witness ==
    /\ cum_run.op = "fetch"
    /\ cum_run.before = NoFile
    /\ cum_run.current_links = Links
    /\ cum_run.articles = {}
    /\ StoredLinks(cum_file) = Links

\* C7: no fetch_news run removes a persisted id, also not a run in which the
\* existing snapshot file cannot be read; only the reset does.
C7_OnlyResetRemoves ==
    cum_run.op = "fetch" =>
        StoredLinks(cum_run.before) \subseteq StoredLinks(cum_file)

\* ------------------------------------------------- claims, compare and check
\* the link facet of a snapshot
FacetLinks(kind, snap) ==
    CASE kind = "ICH" -> snap.links_found
      [] kind = "EudraLex" -> UrlsOf(snap.all_pdfs)
      [] kind = "GMP" -> UrlsOf(snap.articles)

\* the links a comparison reports as added
ReportedAdded(kind, result) ==
    CASE kind = "ICH" -> result.new_links
      [] kind = "EudraLex" -> UrlsOf(result.new_pdfs)
      [] kind = "GMP" -> UrlsOf(result.new_articles)

\* the links a comparison reports as removed
ReportedRemoved(kind, result) ==
    CASE kind = "ICH" -> result.removed_links
      [] kind = "EudraLex" -> UrlsOf(result.removed_pdfs)
      [] kind = "GMP" -> UrlsOf(result.removed_articles)

\* C8: when the content hashes of old and new differ, compare_snapshots of
\* the ICH and of the EudraLex monitor returns has_changes = true, added
\* links = new links minus old links and removed links = old minus new; old
\* {A, B} and new {B, C} give added {C} and removed {A}.
C8_ChangeDetection ==
    (/\ cmp.op = "compare"
     /\ cmp.monitor \in {"ICH", "EudraLex"}
     /\ cmp.old.content_hash # cmp.new.content_hash) =>
        LET old_links == FacetLinks(cmp.monitor, cmp.old)
            new_links == FacetLinks(cmp.monitor, cmp.new)
        IN  /\ cmp.result.has_changes = TRUE
            /\ ReportedAdded(cmp.monitor, cmp.result) = new_links \ old_links
            /\ ReportedRemoved(cmp.monitor, cmp.result) = old_links \ new_links
            /\ (old_links = {"A.pdf", "B.pdf"} /\ new_links = {"B.pdf", "C.pdf"}) =>
                /\ ReportedAdded(cmp.monitor, cmp.result) = {"C.pdf"}
                /\ ReportedRemoved(cmp.monitor, cmp.result) = {"A.pdf"}

\* the worked example on two ICH snapshots
C8_Witness ==
    /\ cmp.op = "compare"
    /\ cmp.monitor = "ICH"
    /\ cmp.old.content_hash # cmp.new.content_hash
    /\ cmp.old.links_found = {"A.pdf", "B.pdf"}
    /\ cmp.new.links_found = {"B.pdf", "C.pdf"}
    /\ cmp.result.new_links = {"C.pdf"}
    /\ cmp.result.removed_links = {"A.pdf"}

\* the hashes the compare step of a monitor has to go by: content_hash, and
\* for the GMP Journal, whose snapshot has no content_hash, its page_hashes
SameHashes(c) ==
    IF c.monitor = "GMP"
    THEN c.old.page_hashes = c.new.page_hashes
    ELSE c.old.content_hash = c.new.content_hash

\* a comparison result that reports nothing added, removed or modified
NothingReported(kind, result) ==
    CASE kind = "ICH" ->
            /\ result.new_links = {}
            /\ result.removed_links = {}
            /\ Get(result, "new_guidelines", {}) = {}
            /\ Get(result, "removed_guidelines", {}) = {}
      [] kind = "EudraLex" ->
            /\ result.new_pdfs = <<>>
            /\ result.removed_pdfs = <<>>
      [] kind = "HTML" ->
            /\ result.text_changes.added = <<>>
            /\ result.text_changes.removed = <<>>
            /\ result.link_changes.added = {}
            /\ result.link_changes.removed = {}
      [] kind = "GMP" ->
            /\ result.new_articles = <<>>
            /\ result.removed_articles = <<>>
            /\ result.modified_pages = {}

\* C9 as amended: in the compare step of the ICH, the EudraLex and the HTML
\* monitor, equal content hashes give has_changes = false and empty added
\* and removed lists whatever the facet lists of the two snapshots hold.
C9_HashShortCircuit ==
    (/\ cmp.op = "compare"
     /\ cmp.monitor \in {"ICH", "EudraLex", "HTML"}
     /\ SameHashes(cmp)) =>
        /\ cmp.result.has_changes = FALSE
        /\ NothingReported(cmp.monitor, cmp.result)

\* two ICH snapshots with one hash and different links and guideline codes
C9_Witness ==
    /\ cmp.op = "compare"
    /\ cmp.monitor = "ICH"
    /\ cmp.old.content_hash = cmp.new.content_hash
    /\ cmp.old.links_found # cmp.new.links_found
    /\ cmp.old.guidelines_found # cmp.new.guidelines_found
    /\ cmp.result.has_changes = FALSE

\* C9 as stated: in the compare step of every monitor, equal hashes give
\* has_changes = false and empty added and removed lists whatever the facet
\* lists hold.
C9_EveryMonitor ==
    (cmp.op = "compare" /\ SameHashes(cmp)) =>
        /\ cmp.result.has_changes = FALSE
        /\ NothingReported(cmp.monitor, cmp.result)

\* C10: when the fetch of an ICH, EudraLex or HTML check fails, the check
\* returns status 'error' and the snapshot file of the target is what it was
\* before (none if there was none); the next successful check of a target
\* that still has no snapshot is the baseline.
C10_NoSaveOnFetchFailure ==
    (cur.op = "check" /\ cur.monitor \in {"ICH", "EudraLex", "HTML"}) =>
        /\ cur.fetched = FetchFail =>
            /\ cur.result.status = "error"
            /\ SnapshotOf(cur.monitor, cur.target) = cur.before
        /\ (cur.prev.status = "error" /\ cur.before = NoFile /\ cur.fetched # FetchFail) =>
            /\ cur.result.status = "first_check"
            /\ SnapshotOf(cur.monitor, cur.target) # NoFile

\* a failed fetch of an ICH category that has a snapshot
C10_Witness ==
    /\ cur.op = "check"
    /\ cur.monitor = "ICH"
    /\ cur.fetched = FetchFail
    /\ cur.before # NoFile
    /\ cur.result.status = "error"
    /\ ich_snap[cur.target] = cur.before

\* ------------------------------------------------------- claims, persistence
\* C11: every snapshot GMPJournalAnnex1Monitor.check has persisted comes from
\* a cycle in which the search page and every monitored page were fetched:
\* it holds articles and a content hash for each page of MONITORED_PAGES.
C11_GmpSnapshotComplete ==
    gmp_snap # NoFile =>
        /\ gmp_snap.article_count # 0
        /\ DOMAIN gmp_snap.page_hashes = MONITORED_PAGES

\* C12: when a save of a snapshot file is interrupted (the write fails or the
\* process stops at any point of it), the next load returns the complete
\* previous snapshot or the complete new one.
C12_AtomicReplace ==
    w_load.op = "load" =>
        \/ w_load.result = load_file(w_load.before)
        \/ w_load.result = [ok |-> TRUE, exists |-> TRUE, value |-> w_load.data]

\* ------------------------------------------------------- claims, check_all
\* the entry check_all returned for target number i is the one a check of
\* that target alone returns, and the file left is the one it leaves
EntryAsAlone(r, i, snaps) ==
    LET target == r.order[i]
        alone == CheckOne(r.monitor, target, r.before[target], r.fetched[target], r.ts)
    IN  /\ r.results[i] = alone.result
        /\ snaps[target] = alone.saved

\* C13: in check_all of the ICH and of the regulatory page monitor the
\* returned list has exactly one entry per configured target, in order; a
\* target whose fetch failed has an error entry and its snapshot untouched,
\* and every target with a healthy fetch is checked and its snapshot
\* persisted as if it had been checked alone.
C13_FetchFailureIsolated ==
    all_run.op = "check_all" =>
        LET snaps == IF all_run.monitor = "ICH" THEN ich_snap ELSE html_snap
        IN  /\ ~all_run.raised
            /\ Len(all_run.results) = Len(all_run.order)
            /\ \A i \in DOMAIN all_run.order :
                LET target == all_run.order[i]
                IN  /\ EntryAsAlone(all_run, i, snaps)
                    /\ all_run.fetched[target] = FetchFail =>
                        /\ all_run.results[i].status = "error"
                        /\ snaps[target] = all_run.before[target]
                    /\ all_run.fetched[target] # FetchFail =>
                        /\ all_run.results[i].status \in {"first_check", "checked"}
                        /\ snaps[target] # NoFile

\* the first target fails to fetch, the second gets its baseline
C13_Witness ==
    /\ all_run.op = "check_all"
    /\ all_run.monitor = "ICH"
    /\ all_run.fetched["quality"] = FetchFail
    /\ all_run.fetched["safety"] # FetchFail
    /\ all_run.results[1].status = "error"
    /\ all_run.results[2].status = "first_check"
    /\ ich_snap["quality"] = NoFile
    /\ ich_snap["safety"] # NoFile


\* C14: a snapshot of one target that cannot be loaded or saved never aborts
\* the run: check_all returns with one entry per target, the failing target
\* among them as an error entry, and the pipeline goes on to the section
\* after ICH Guidelines.
C14_SnapshotFaultNeverAborts ==
    all_run.op = "check_all" =>
        /\ ~all_run.raised
        /\ Len(all_run.results) = Len(all_run.order)
        /\ all_run.fault # NoFault =>
            \E i \in DOMAIN all_run.results :
                /\ all_run.results[i].status = "error"
                /\ all_run.order[i] = all_run.fault.target
        /\ all_run.caller = "pipeline" => pipe_pc = "pmda"


\* ------------------------------------------- claims, cumulative tracker II
\* C15: when _save_snapshot fails in a fetch_news that is not a first run
\* and has found new links, the articles parsed for those links are still
\* returned to the caller.
C15_ArticlesReturnedWhenSaveFails ==
    (cum_run.op = "save_failed" /\ ~cum_run.is_first_run /\ cum_run.new_links # {}) =>
        cum_run.articles = cum_run.new_links \cap cum_run.parsed


\* C19: a fetch_news whose hub fetches all failed, or that found no link
\* outside the stored set, does not write article_links.json: the file, its
\* links and its 'updated' time are as before the run.
C19_NoWriteOnFruitlessCycle ==
    (cum_run.op = "fetch" /\ cum_run.new_links = {}) => cum_file = cum_run.before


\* ------------------------------------------------- claims, at most once
\* C16: a link that a check of an ICH category or of EudraLex Volume 4
\* reported as new is not reported as new by any later check of it.
C16_NewAtMostOnceInMonitors ==
    hist_run.op = "check" /\ monitor \in {"ICH", "EudraLex"} =>
        hist_run.reported \cap hist_run.earlier = {}

\* C17: a link the PMDA or the USP section emitted as an update in one
\* pipeline run is not emitted by that section in any later run.
C17_ForwardedAtMostOnce ==
    hist_run.op = "check" /\ monitor \in {"PMDA", "USP"} =>
        hist_run.reported \cap hist_run.earlier = {}


\* ------------------------------------------------ claims, frame of a check
\* C18: a successful check of the ICH, EudraLex, GMP Journal or HTML monitor
\* whose comparison yields has_changes = false leaves the stored snapshot
\* as it was, content, hash and timestamp.
C18_UnchangedCheckLeavesSnapshot ==
    (cur.op = "check" /\ cur.result.status = "checked" /\ ~cur.result.has_changes) =>
        /\ SnapshotOf(cur.monitor, cur.target) = cur.before
        /\ SnapshotOf(cur.monitor, cur.target).timestamp < now - 1

\* an ICH category is checked with nothing changed two checks after the
\* snapshot was written
C18_Witness ==
    /\ cur.op = "check"
    /\ cur.monitor = "ICH"
    /\ cur.result.status = "checked"
    /\ ~cur.result.has_changes
    /\ cur.before # NoFile
    /\ ich_snap[cur.target] = cur.before
    /\ ich_snap[cur.target].timestamp = now - 3

\* the (title, url) pairs of a list of PDF anchors
AnchorSet(anchors) == {[title |-> anchors[i].title, url |-> anchors[i].url] : i \in DOMAIN anchors}

\* C20: when the page holds the same PDF links, url and title each, as the
\* stored EudraLex snapshot, in whatever DOM order, extract_documents gives
\* the stored content_hash and the check reports has_changes = false.
C20_EudraLexOrderIndependent ==
    (/\ cur.op = "check"
     /\ cur.monitor = "EudraLex"
     /\ cur.result.status = "checked"
     /\ AnchorSet(cur.fetched.anchors) = AnchorSet(cur.before.all_pdfs)) =>
        /\ EudraLex_extract_documents(cur.fetched, now).content_hash = cur.before.content_hash
        /\ ~cur.result.has_changes


\* ------------------------------------------------ claims, fingerprints II
\* C21: the check after the baseline of an ICH category never reports in
\* new_links or removed_links a PDF link that is in the API content of both
\* observations, also when the content holds more links than the cap keeps.
C21_CapKeepsSameLinks ==
    (/\ cur.op = "check"
     /\ cur.monitor = "ICH"
     /\ cur.prev.status = "first_check"
     /\ cur.result.status = "checked") =>
        \A l \in cur.prev.fetched.pdfs \cap cur.fetched.pdfs :
            l \notin cur.result.new_links \cup cur.result.removed_links


\* the urls of the links of a snapshot, by monitor
LinkUrls(kind, snap) ==
    CASE kind = "HTML" -> {snap.links[i].href : i \in DOMAIN snap.links}
      [] kind = "EudraLex" -> UrlsOf(snap.all_pdfs)
      [] kind = "GMP" -> UrlsOf(snap.articles)

\* the urls of the links a comparison lists as added or removed
ListedUrls(kind, result) ==
    CASE kind = "HTML" -> {l.href : l \in result.link_changes.added \cup result.link_changes.removed}
      [] kind = "EudraLex" -> UrlsOf(result.new_pdfs) \cup UrlsOf(result.removed_pdfs)
      [] kind = "GMP" -> UrlsOf(result.new_articles) \cup UrlsOf(result.removed_articles)

\* C22: in the diff of the HTML, EudraLex and GMP Journal monitors a link
\* whose url is in both snapshots is in neither the added nor the removed
\* list, whatever happened to its title.
C22_ComparedByUrlOnly ==
    (cmp.op = "compare" /\ cmp.monitor \in {"HTML", "EudraLex", "GMP"}) =>
        LinkUrls(cmp.monitor, cmp.old) \cap LinkUrls(cmp.monitor, cmp.new)
            \cap ListedUrls(cmp.monitor, cmp.result) = {}


\* ------------------------------------------------------- claims, reports
\* the texts that say a target, or every target, is unchanged
UnchangedTexts ==
    {"No changes", "[NO CHANGES]", "No changes detected",
     "All ICH guidelines unchanged", "All pages unchanged"}

\* C23: for every target whose fetch failed in a check_all run the entry has
\* status 'error' and an error message, and neither the line of that target
\* in the report and on the console nor the closing line of the report says
\* unchanged.
C23_FailuresSurfaced ==
    all_run.op = "check_all" =>
        \A i \in DOMAIN all_run.results :
            all_run.fetched[all_run.order[i]] = FetchFail =>
                /\ all_run.results[i].status = "error"
                /\ "error" \in DOMAIN all_run.results[i]
                /\ IF all_run.monitor = "ICH"
                   THEN /\ ICH_report_line(all_run.results[i]) = "Error"
                        /\ ICH_report_footer(all_run.results) \notin UnchangedTexts
                   ELSE /\ HTML_console_line(all_run.results[i]) \notin UnchangedTexts
                        /\ HTML_report_line(all_run.results[i]) \notin UnchangedTexts
                        /\ HTML_report_footer(all_run.results) \notin UnchangedTexts


\* ---------------------------------------------------- claims, concurrency
\* C24: two fetch_news runs against the same snapshot file behave as if run
\* one after the other: when none is under way the file holds every link a
\* completed run had in its current_links, and no run returns a link that an
\* earlier run returned.
C24_AtomicReadModifyWrite ==
    /\ (\A p \in Procs : conc_pc[p] = "idle") => conc_seen \subseteq StoredLinks(cum_file)
    /\ conc_run # NoConcRun => conc_run.articles \cap conc_run.earlier = {}

\* C25: the checks of two distinct targets use different snapshot files, and
\* however their steps interleave, every check returns the result, and every
\* target's file ends as, the checks of that target alone would give.
C25_CrossTargetIndependence ==
    /\ \A p, q \in Procs : p # q =>
          SnapshotPath(monitor, TargetOf(monitor, p)) # SnapshotPath(monitor, TargetOf(monitor, q))
    /\ \A p \in Procs :
          /\ int_run[p].op = "check" => int_run[p].result = int_run[p].alone
          /\ int_pc[p] = "idle" =>
                FileAt(int_files, SnapshotPath(monitor, TargetOf(monitor, p))) = int_own[p]

\* two checks have overlapped and both targets have had a change reported
C25_Witness ==
    /\ int_overlap
    /\ \A p \in Procs :
          /\ int_pc[p] = "idle"
          /\ int_run[p].op = "check"
          /\ int_run[p].result.status = "checked"
          /\ int_run[p].result.has_changes

\* the summary part of every tracked change category of a compare result
\* that is not empty
NonEmptyCategories(kind, old, new, result) ==
    CASE kind = "ICH" ->
            (IF result.new_links # {} THEN {"new PDFs"} ELSE {})
            \cup (IF result.removed_links # {} THEN {"removed PDFs"} ELSE {})
            \cup (IF result.new_guidelines # {} THEN {"New"} ELSE {})
            \cup (IF result.removed_guidelines # {} THEN {"removed guidelines"} ELSE {})
            \cup (IF new.response_size # old.response_size THEN {"Size diff"} ELSE {})
      [] kind = "EudraLex" ->
            (IF result.new_pdfs # <<>> THEN {"new PDF(s)"} ELSE {})
            \cup (IF result.removed_pdfs # <<>> THEN {"removed PDF(s)"} ELSE {})
            \cup (IF result.pdf_count_change # 0 THEN {"Total PDFs"} ELSE {})
      [] kind = "HTML" ->
            (IF result.text_changes.added # <<>> THEN {"lines added"} ELSE {})
            \cup (IF result.text_changes.removed # <<>> THEN {"lines removed"} ELSE {})
            \cup (IF result.link_changes.added # {} THEN {"links added"} ELSE {})
            \cup (IF result.link_changes.removed # {} THEN {"links removed"} ELSE {})

\* C26: in the compare step of the ICH, EudraLex and HTML monitors the
\* summary of a result with has_changes is 'Content modified' exactly when
\* every tracked change category is empty, and otherwise names exactly the
\* categories that are not empty.
C26_SummaryFallback ==
    (/\ cmp.op = "compare"
     /\ cmp.monitor \in {"ICH", "EudraLex", "HTML"}
     /\ cmp.result.has_changes) =>
        LET cats == NonEmptyCategories(cmp.monitor, cmp.old, cmp.new, cmp.result)
            named == {cmp.result.summary[i] : i \in DOMAIN cmp.result.summary}
        IN  /\ (cmp.result.summary = <<"Content modified">>) <=> (cats = {})
            /\ cats # {} => named = cats

\* C27: for every snapshot monitor, when a check has returned has_changes
\* and the next check of the same target fetches identical content and does
\* not end in an error, that check returns has_changes = FALSE.
C27_ChangeReportedOnce ==
    (/\ cur.op = "check"
     /\ cur.prev.status = "checked"
     /\ cur.prev.has_changes
     /\ cur.fetched = cur.prev.fetched
     /\ cur.result.status # "error") =>
        ~cur.result.has_changes

\* an ICH check has reported a change and the next check of the category has
\* met the same content
C27_Witness ==
    /\ cur.op = "check"
    /\ cur.monitor = "ICH"
    /\ cur.prev.status = "checked"
    /\ cur.prev.has_changes
    /\ cur.fetched = cur.prev.fetched
    /\ cur.result.status = "checked"
    /\ ~cur.result.has_changes
    /\ ich_snap[cur.target] = cur.before

\* C28: a fetch_news run that is not a first run persists every link of its
\* current_links whatever its detail fetch gave, and no run returns an
\* article for a link whose detail fetch gave none in an earlier run.
C28_FailedLinksStaySeen ==
    [][cum_run'.op = "fetch" =>
        /\ ~cum_run'.is_first_run => cum_run'.current_links \subseteq StoredLinks(cum_file')
        /\ cum_run'.articles \cap det_failed = {}]_vars

\* a link whose detail fetch gave no article in an earlier run is listed
\* again, next to a new link that gives an article
C28_Witness ==
    /\ cum_run.op = "fetch"
    /\ ~cum_run.is_first_run
    /\ cum_run.articles # {}
    /\ \E l \in cum_run.current_links \cap det_failed : l \notin DOMAIN cum_run.outcome
    /\ det_failed \subseteq StoredLinks(cum_file)

\* C29: in compare_snapshots of the GMP Journal monitor has_changes is true
\* exactly when new_articles, removed_articles or modified_pages is not
\* empty, and a page is in modified_pages exactly when both snapshots hold a
\* hash for it and the two differ; a page the stored snapshot has no hash
\* for is never reported as modified.
C29_GmpModifiedPages ==
    (cmp.op = "compare" /\ cmp.monitor = "GMP") =>
        LET listed == {m.path : m \in cmp.result.modified_pages}
        IN  /\ cmp.result.has_changes <=>
                  \/ cmp.result.new_articles # <<>>
                  \/ cmp.result.removed_articles # <<>>
                  \/ cmp.result.modified_pages # {}
            /\ \A p \in MONITORED_PAGES :
                  p \in listed <=>
                      /\ p \in DOMAIN cmp.old.page_hashes
                      /\ p \in DOMAIN cmp.new.page_hashes
                      /\ cmp.old.page_hashes[p] # cmp.new.page_hashes[p]
            /\ listed \subseteq DOMAIN cmp.old.page_hashes

\* the stored snapshot has no hash for the page, the new one has, and the
\* article lists are the same
C29_Witness ==
    /\ cmp.op = "compare"
    /\ cmp.monitor = "GMP"
    /\ DOMAIN cmp.old.page_hashes = {}
    /\ DOMAIN cmp.new.page_hashes = MONITORED_PAGES
    /\ UrlsOf(cmp.old.articles) = UrlsOf(cmp.new.articles)
    /\ ~cmp.result.has_changes

\* ----------------------------------------------------- claims, run_pipeline
\* C30: a run of run_pipeline.main sends the monitor alert e-mail only when
\* the monitor step of that run has completed and found at least one update,
\* and the e-mail holds the updates of that run.
C30_MailOnlyCurrentRun ==
    (main_log.op = "main" /\ main_log.emailed) =>
        /\ main_log.monitor_ok
        /\ main_log.found # {}
        /\ main_log.mailed = main_log.found

====
